---- MODULE Spec2Model ----
(***************************************************************************)
(* Cycle-level model of the UnarySim bitstream kernels:                    *)
(*   kernel/add.py       UnaryAdd                                          *)
(*   kernel/mul.py       FSUMul, GainesMul                                 *)
(*   sw/kernel/relu.py   UnaryReLU                                         *)
(*   sw/kernel/linear.py UnaryLinear, GainesLinear2                        *)
(*                                                                         *)
(* One forward call of a module is one action.  Every module owns its      *)
(* registers, so each specification below starts one module (picked with   *)
(* its configuration in Init) and drives it with arbitrary 0/1 inputs.     *)
(* One output lane is modelled: the lanes of a tensor never interact.      *)
(*                                                                         *)
(* torch.float registers that can hold halves (the bipolar offset is       *)
(* (bound-1)/2) are kept in fixed point with one fractional bit: a         *)
(* register holding v is stored as Fx(v) = 2*v.                            *)
(***************************************************************************)
EXTENDS Integers, Sequences, FiniteSets, TLC

VARIABLES
    env,      \* what the caller fixes: which module runs, the input shape
    uadd,     \* registers of a UnaryAdd instance
    gadd,     \* registers of a GainesAdd instance
    fsumul,   \* registers of an FSUMul instance
    gmul,     \* configuration of a GainesMul instance (it has no registers)
    relu,     \* registers of a UnaryReLU instance
    linear,   \* registers of the linear layer that runs (UnaryLinear,
              \* GainesLinear2, FSULinearPC)
    last,     \* the latest forward call: its input, output, registers before it
    hist      \* one entry per completed forward call, oldest first

vars == <<env, uadd, gadd, fsumul, gmul, relu, linear, last, hist>>

\* ---------------------------------------------------------------- bounds
MaxLanes == 4
MaxCycles == 3
MaxBitwidth == 2
MaxDepth == 3
MaxFeatures == 2
MaxLinCycles == 2
MaxCells == 4
MaxGainesCalls == 5

\* batch lanes of an FSULinearPC input
MaxBatch == 2

\* largest magnitude of an input or weight value of FXPLinear
MaxMag == 2

\* forward calls of one FXPLinear layer
MaxFxpCalls == 2

\* the deepest shift register UnaryReLU accepts
DepthLimit == 127

\* --------------------------------------------------------------- helpers
Bit == {0, 1}

\* what a constructor leaves when it raises instead of returning an instance
Raised(error) == [raised |-> error]
Modes == {"unipolar", "bipolar"}
Idle == [kind |-> "none"]

Fx(v) == 2 * v

RECURSIVE SumTo(_, _)
SumTo(f, k) == IF k = 0 THEN 0 ELSE f[k] + SumTo(f, k - 1)

\* torch.sum(input, acc_dim) of a 0/1 vector
Sum(f) == SumTo(f, Len(f))

BitVectors(n) == [1..n -> Bit]

B2I(b) == IF b THEN 1 ELSE 0

RECURSIVE Pow2(_)
Pow2(n) == IF n = 0 THEN 1 ELSE 2 * Pow2(n - 1)

\* &, | and ^ of torch.int8 tensors that hold 0 or 1
BitAnd(a, b) == a * b
BitOr(a, b) == a + b - a * b
BitXor(a, b) == (a + b) % 2

\* torch.clamp(v, lo, hi)
Clamp(v, lo, hi) == IF v < lo THEN lo ELSE IF v > hi THEN hi ELSE v

\* ----------------------------------------- index sequences and generator
\* v written with w bits, read backwards (the radical-inverse order of a
\* low-discrepancy sequence)
RECURSIVE BitRev(_, _)
BitRev(v, w) == IF w = 0 THEN 0
                ELSE (v % 2) * Pow2(w - 1) + BitRev(v \div 2, w - 1)

\* RNG(bitwidth, ...)(): an index sequence of period 2^bitwidth that holds
\* every value of [0, 2^bitwidth) once.  Three such sequences stand for the
\* source: radical-inverse, counting up, counting down.
RNG(bitwidth) ==
    LET P == Pow2(bitwidth)
    IN  { [i \in 1..P |-> BitRev(i - 1, bitwidth)],
          [i \in 1..P |-> i - 1],
          [i \in 1..P |-> P - i] }

\* SourceGen(prob, bitwidth, mode)(): the magnitude as an integer level
Levels(bitwidth) == 0..Pow2(bitwidth)

\* BSGen(source, rng)(rng_idx): the bit of the stream at counter rng_idx
BSGen(source, rng, rng_idx) == B2I(rng[(rng_idx % Len(rng)) + 1] < source)

\* ------------------------------------------------------------- UnaryAdd
\* UnaryAdd.__init__: every register starts at zero.  out_accumulator only
\* exists when scaled is False; it is kept at 0 and never read otherwise.
UnaryAdd_init(mode, scaled) ==
    [mode |-> mode, scaled |-> scaled,
     acc_bound |-> Fx(0), offset |-> Fx(0),
     accumulator |-> Fx(0), out_accumulator |-> Fx(0)]

\* Faulty variants of UnaryAdd_scaled: a strict comparison; a counter that is
\* cleared on overflow instead of carrying the remainder.
UnaryAdd_scaled_strict(self, bound, acc) ==
    LET output == B2I(acc > bound)
    IN  [self |-> [self EXCEPT !.acc_bound = bound,
                               !.accumulator = acc - output * bound],
         output |-> output]

UnaryAdd_scaled_clear(self, bound, acc) ==
    LET output == B2I(acc >= bound)
    IN  [self |-> [self EXCEPT !.acc_bound = bound,
                               !.accumulator = IF output = 1 THEN 0 ELSE acc],
         output |-> output]

\* UnaryAdd.forward with scaled = True: compare, then carry out the bound.
UnaryAdd_scaled(self, bound, acc) ==
    LET output == B2I(acc >= bound)
    IN  [self |-> [self EXCEPT !.acc_bound = bound,
                               !.accumulator = acc - output * bound],
         output |-> output]

\* Faulty variant of UnaryAdd_nonscaled: an output is given as soon as the
\* accumulator has reached the out-accumulator.
UnaryAdd_nonscaled_eager(self, bound, offset, acc) ==
    LET acc2 == acc - offset
        output == B2I(acc2 >= self.out_accumulator)
    IN  [self |-> [self EXCEPT !.acc_bound = bound,
                               !.offset = offset,
                               !.accumulator = acc2,
                               !.out_accumulator = self.out_accumulator + Fx(output)],
         output |-> output]

\* Faulty variant of UnaryAdd_nonscaled: the out-accumulator is advanced
\* before the comparison reads it.
UnaryAdd_nonscaled_early(self, bound, offset, acc) ==
    LET acc2 == acc - offset
        output == B2I(acc2 > self.out_accumulator + Fx(1))
    IN  [self |-> [self EXCEPT !.acc_bound = bound,
                               !.offset = offset,
                               !.accumulator = acc2,
                               !.out_accumulator = self.out_accumulator + Fx(output)],
         output |-> output]

\* UnaryAdd.forward with scaled = False: remove the offset, compare with the
\* out-accumulator as it stands, then count the output.
UnaryAdd_nonscaled(self, bound, offset, acc) ==
    LET acc2 == acc - offset
        output == B2I(acc2 > self.out_accumulator)
    IN  [self |-> [self EXCEPT !.acc_bound = bound,
                               !.offset = offset,
                               !.accumulator = acc2,
                               !.out_accumulator = self.out_accumulator + Fx(output)],
         output |-> output]

\* UnaryAdd.forward on a 0/1 vector laid along the reduction axis.
UnaryAdd_step(self, input) ==
    LET bound == Fx(Len(input))
        offset == IF self.mode = "bipolar" THEN (bound - Fx(1)) \div 2
                  ELSE self.offset
        acc == self.accumulator + Fx(Sum(input))
    IN  IF self.scaled
        THEN LET r == UnaryAdd_scaled(self, bound, acc)
             IN  [r EXCEPT !.self.offset = offset]
        ELSE UnaryAdd_nonscaled(self, bound, offset, acc)

InitAdd ==
    /\ \E n \in 1..MaxLanes : env = [kind |-> "UnaryAdd", lanes |-> n]
    /\ \E m \in Modes, s \in BOOLEAN : uadd = UnaryAdd_init(m, s)
    /\ gadd = Idle /\ fsumul = Idle /\ gmul = Idle /\ relu = Idle /\ linear = Idle
    /\ last = Idle
    /\ hist = <<>>

UnaryAdd_forward ==
    /\ env.kind = "UnaryAdd"
    /\ Len(hist) < MaxCycles
    /\ \E input \in BitVectors(env.lanes) :
         LET r == UnaryAdd_step(uadd, input)
         IN  /\ uadd' = r.self
             /\ last' = [kind |-> "UnaryAdd", input |-> input,
                         output |-> r.output, pre |-> uadd]
             /\ hist' = Append(hist, [ones |-> Sum(input),
                                      output |-> r.output,
                                      before |-> uadd.accumulator,
                                      after |-> r.self.accumulator])
    /\ UNCHANGED <<env, gadd, fsumul, gmul, relu, linear>>

NextAdd == UnaryAdd_forward

SpecAdd == InitAdd /\ [][NextAdd]_vars


\* ------------------------------------------------------------- GainesAdd
\* input.size()[dim] of a two-axis input held as a sequence of rows
Size(input, dim) == IF dim = 0 THEN Len(input) ELSE Len(input[1])

\* unbind(index_select(input, dim, k), dim)[0]: the slice k of axis dim
IndexSelect(input, dim, k) ==
    IF dim = 0 THEN input[k + 1]
    ELSE [i \in 1..Len(input) |-> input[i][k + 1]]

\* torch.sum(input, dim)
SumAlong(input, dim) ==
    IF dim = 0
    THEN [j \in 1..Len(input[1]) |-> Sum([i \in 1..Len(input) |-> input[i][j]])]
    ELSE [i \in 1..Len(input) |-> Sum(input[i])]

\* the two-axis 0/1 inputs of a shape
BitMatrices(rows, cols) == [1..rows -> [1..cols -> Bit]]

\* GainesAdd.__init__: bipolar non-scaled is refused.  The acc_dim register is
\* created as zeros and the argument acc_dim is never written into it.
GainesAdd_init(mode, scaled, acc_dim, rng) ==
    IF mode = "bipolar" /\ ~scaled THEN Raised("ValueError")
    ELSE [mode |-> mode, scaled |-> scaled,
          acc_dim |-> 0,
          rng |-> rng, rng_idx |-> 0]

\* Faulty variants of GainesAdd_step: the lane is picked by the counter
\* itself; a refused call still advances the counter.
GainesAdd_step_direct(self, input) ==
    IF self.scaled
    THEN LET randNum == self.rng_idx
         IN  IF ~(randNum < Size(input, self.acc_dim))
             THEN [self |-> self, output |-> <<>>, error |-> "AssertionError"]
             ELSE [self |-> [self EXCEPT !.rng_idx =
                                (self.rng_idx + 1) % Len(self.rng)],
                   output |-> IndexSelect(input, self.acc_dim, randNum),
                   error |-> "none"]
    ELSE LET total == SumAlong(input, self.acc_dim)
         IN  [self |-> self,
              output |-> [j \in DOMAIN total |-> B2I(total[j] > 0)],
              error |-> "none"]

GainesAdd_step_skip(self, input) ==
    IF self.scaled
    THEN LET randNum == self.rng[self.rng_idx + 1]
             next == [self EXCEPT !.rng_idx = (self.rng_idx + 1) % Len(self.rng)]
         IN  IF ~(randNum < Size(input, self.acc_dim))
             THEN [self |-> next, output |-> <<>>, error |-> "AssertionError"]
             ELSE [self |-> next,
                   output |-> IndexSelect(input, self.acc_dim, randNum),
                   error |-> "none"]
    ELSE LET total == SumAlong(input, self.acc_dim)
         IN  [self |-> self,
              output |-> [j \in DOMAIN total |-> B2I(total[j] > 0)],
              error |-> "none"]

\* Faulty variant of GainesAdd_step: the non-scaled gate is an AND.
GainesAdd_step_all(self, input) ==
    IF self.scaled
    THEN LET randNum == self.rng[self.rng_idx + 1]
         IN  IF ~(randNum < Size(input, self.acc_dim))
             THEN [self |-> self, output |-> <<>>, error |-> "AssertionError"]
             ELSE [self |-> [self EXCEPT !.rng_idx =
                                (self.rng_idx + 1) % Len(self.rng)],
                   output |-> IndexSelect(input, self.acc_dim, randNum),
                   error |-> "none"]
    ELSE LET total == SumAlong(input, self.acc_dim)
         IN  [self |-> self,
              output |-> [j \in DOMAIN total |->
                            B2I(total[j] >= Size(input, self.acc_dim))],
              error |-> "none"]

\* GainesAdd.forward: scaled, the lane rng[rng_idx] of the axis in the
\* acc_dim register, refused by the assertion before anything is written
\* when that lane does not exist; non-scaled, the OR along that axis.
GainesAdd_step(self, input) ==
    IF self.scaled
    THEN LET randNum == self.rng[self.rng_idx + 1]
         IN  IF ~(randNum < Size(input, self.acc_dim))
             THEN [self |-> self, output |-> <<>>, error |-> "AssertionError"]
             ELSE [self |-> [self EXCEPT !.rng_idx =
                                (self.rng_idx + 1) % Len(self.rng)],
                   output |-> IndexSelect(input, self.acc_dim, randNum),
                   error |-> "none"]
    ELSE LET total == SumAlong(input, self.acc_dim)
         IN  [self |-> self,
              output |-> [j \in DOMAIN total |-> B2I(total[j] > 0)],
              error |-> "none"]

\* The caller fixes the input shape and the constructor arguments.
InitGainesAdd ==
    /\ \E rows \in 1..MaxCells, cols \in 1..MaxCells,
          m \in Modes, s \in BOOLEAN, d \in {0, 1}, w \in 1..MaxBitwidth :
         /\ rows * cols <= MaxCells
         /\ env = [kind |-> "GainesAdd", rows |-> rows, cols |-> cols,
                   mode |-> m, scaled |-> s, acc_dim |-> d]
         /\ \E r \in RNG(w) : gadd = GainesAdd_init(m, s, d, r)
    /\ uadd = Idle /\ fsumul = Idle /\ gmul = Idle /\ relu = Idle /\ linear = Idle
    /\ last = Idle
    /\ hist = <<>>

GainesAdd_forward ==
    /\ env.kind = "GainesAdd"
    /\ gadd /= Raised("ValueError")
    /\ Len(hist) < MaxGainesCalls
    /\ \E input \in BitMatrices(env.rows, env.cols) :
         LET r == GainesAdd_step(gadd, input)
         IN  /\ gadd' = r.self
             /\ last' = [kind |-> "GainesAdd", input |-> input,
                         output |-> r.output, error |-> r.error, pre |-> gadd]
             /\ hist' = Append(hist, [error |-> r.error, idx |-> gadd.rng_idx])
    /\ UNCHANGED <<env, uadd, fsumul, gmul, relu, linear>>

NextGainesAdd == GainesAdd_forward

SpecGainesAdd == InitGainesAdd /\ [][NextGainesAdd]_vars

\* --------------------------------------------------------------- FSUMul
\* the mode strings a caller passes: the two supported ones and another
ModeArgs == Modes \cup {"other"}

\* Faulty variant of FSUMul_init: static = False is accepted.
FSUMul_init_lenient(bitwidth, mode, static, input_prob_1, rng) ==
    LET base == [bitwidth |-> bitwidth, mode |-> mode, static |-> static,
                 rng |-> rng, source_gen |-> input_prob_1,
                 rng_idx |-> 0]
    IN  IF mode = "bipolar" THEN [rng_idx_inv |-> 0] @@ base ELSE base

\* FSUMul.__init__: static = False is refused; otherwise the generator's
\* level and sequence, and the enable counter(s) at 0.  The mode is stored
\* unchecked.  rng_idx_inv only exists in bipolar mode.
FSUMul_init(bitwidth, mode, static, input_prob_1, rng) ==
    LET base == [bitwidth |-> bitwidth, mode |-> mode, static |-> TRUE,
                 rng |-> rng, source_gen |-> input_prob_1,
                 rng_idx |-> 0]
    IN  IF ~static THEN Raised("ValueError")
        ELSE IF mode = "bipolar" THEN [rng_idx_inv |-> 0] @@ base
        ELSE base

\* Faulty variants of FSUMul_step: the enable is ignored and the counter
\* advances every cycle; the 0-path reads the 1-path's counter.
FSUMul_step_stuck(self, input_0) ==
    LET path_0 == BitAnd(input_0, BSGen(self.source_gen, self.rng, self.rng_idx))
    IN  IF self.mode = "unipolar"
        THEN [self |-> self, error |-> "none", output |-> path_0,
              path_0 |-> path_0, path_1 |-> 0]
        ELSE IF self.mode = "bipolar"
        THEN LET path_1 == BitAnd(1 - input_0,
                                  1 - BSGen(self.source_gen, self.rng,
                                            self.rng_idx_inv))
             IN  [self |-> self, error |-> "none",
                  output |-> BitOr(path_0, path_1),
                  path_0 |-> path_0, path_1 |-> path_1]
        ELSE [self |-> self, error |-> "ValueError"]

FSUMul_step_free(self, input_0) ==
    LET path_0 == BitAnd(input_0, BSGen(self.source_gen, self.rng, self.rng_idx))
        s1 == [self EXCEPT !.rng_idx = self.rng_idx + 1]
    IN  IF self.mode = "unipolar"
        THEN [self |-> s1, error |-> "none", output |-> path_0,
              path_0 |-> path_0, path_1 |-> 0]
        ELSE IF self.mode = "bipolar"
        THEN LET path_1 == BitAnd(1 - input_0,
                                  1 - BSGen(s1.source_gen, s1.rng, s1.rng_idx_inv))
                 s2 == [s1 EXCEPT !.rng_idx_inv = s1.rng_idx_inv + (1 - input_0)]
             IN  [self |-> s2, error |-> "none", output |-> BitOr(path_0, path_1),
                  path_0 |-> path_0, path_1 |-> path_1]
        ELSE [self |-> s1, error |-> "ValueError"]

FSUMul_step_shared(self, input_0) ==
    LET path_0 == BitAnd(input_0, BSGen(self.source_gen, self.rng, self.rng_idx))
        s1 == [self EXCEPT !.rng_idx = self.rng_idx + input_0]
    IN  IF self.mode = "unipolar"
        THEN [self |-> s1, error |-> "none", output |-> path_0,
              path_0 |-> path_0, path_1 |-> 0]
        ELSE IF self.mode = "bipolar"
        THEN LET path_1 == BitAnd(1 - input_0,
                                  1 - BSGen(s1.source_gen, s1.rng, s1.rng_idx))
                 s2 == [s1 EXCEPT !.rng_idx_inv = s1.rng_idx_inv + (1 - input_0)]
             IN  [self |-> s2, error |-> "none", output |-> BitOr(path_0, path_1),
                  path_0 |-> path_0, path_1 |-> path_1]
        ELSE [self |-> s1, error |-> "ValueError"]

\* FSUMul.FSUMul_forward on one input bit: the 1-path bit and the advance of
\* its counter come first, the mode is looked at after them, and a mode that
\* is neither of the two raises then.
FSUMul_step(self, input_0) ==
    LET path_0 == BitAnd(input_0, BSGen(self.source_gen, self.rng, self.rng_idx))
        s1 == [self EXCEPT !.rng_idx = self.rng_idx + input_0]
    IN  IF self.mode = "unipolar"
        THEN [self |-> s1, error |-> "none", output |-> path_0,
              path_0 |-> path_0, path_1 |-> 0]
        ELSE IF self.mode = "bipolar"
        THEN LET path_1 == BitAnd(1 - input_0,
                                  1 - BSGen(s1.source_gen, s1.rng, s1.rng_idx_inv))
                 s2 == [s1 EXCEPT !.rng_idx_inv = s1.rng_idx_inv + (1 - input_0)]
             IN  [self |-> s2, error |-> "none", output |-> BitOr(path_0, path_1),
                  path_0 |-> path_0, path_1 |-> path_1]
        ELSE [self |-> s1, error |-> "ValueError"]

\* ------------------------------------------------------------ GainesMul
\* GainesMul.__init__ stores the mode unchecked.
GainesMul_init(mode) == [mode |-> mode]

\* Faulty variant of GainesMul_step: the bipolar gate without its inversion.
GainesMul_step_xor(self, input_0, input_1) ==
    IF self.mode = "unipolar"
    THEN [error |-> "none", output |-> BitAnd(input_0, input_1)]
    ELSE IF self.mode = "bipolar"
    THEN [error |-> "none", output |-> BitXor(input_0, input_1)]
    ELSE [error |-> "ValueError"]

\* GainesMul.GainesMul_forward on one pair of bits; a mode that is neither
\* of the two raises here.
GainesMul_step(self, input_0, input_1) ==
    IF self.mode = "unipolar"
    THEN [error |-> "none", output |-> BitAnd(input_0, input_1)]
    ELSE IF self.mode = "bipolar"
    THEN [error |-> "none", output |-> 1 - BitXor(input_0, input_1)]
    ELSE [error |-> "ValueError"]

InitMul ==
    /\ \/ /\ \E w \in 1..MaxBitwidth, m \in ModeArgs, st \in BOOLEAN :
               /\ env = [kind |-> "FSUMul", mode |-> m, static |-> st]
               /\ \E p \in Levels(w), r \in RNG(w) :
                     fsumul = FSUMul_init(w, m, st, p, r)
          /\ gmul = Idle
       \/ /\ \E m \in ModeArgs :
               /\ env = [kind |-> "GainesMul", mode |-> m]
               /\ gmul = GainesMul_init(m)
          /\ fsumul = Idle
    /\ uadd = Idle /\ gadd = Idle /\ relu = Idle /\ linear = Idle
    /\ last = Idle
    /\ hist = <<>>

\* the cycles a multiplier is run for: MaxCycles, or one full period of its
\* index sequence when that is longer
StreamLength(self) ==
    IF Len(self.rng) > MaxCycles THEN Len(self.rng) ELSE MaxCycles

FSUMul_forward ==
    /\ env.kind = "FSUMul"
    /\ fsumul /= Raised("ValueError")
    /\ Len(hist) < StreamLength(fsumul)
    /\ \E input_0 \in Bit :
         LET r == FSUMul_step(fsumul, input_0)
         IN  /\ fsumul' = r.self
             /\ last' = [kind |-> "FSUMul", input |-> input_0,
                         pre |-> fsumul] @@ [f \in DOMAIN r \ {"self"} |-> r[f]]
             /\ hist' = Append(hist, [input |-> input_0]
                                     @@ [f \in {"error", "output"} \cap DOMAIN r |-> r[f]])
    /\ UNCHANGED <<env, uadd, gadd, gmul, relu, linear>>

GainesMul_forward ==
    /\ env.kind = "GainesMul"
    /\ Len(hist) < MaxCycles
    /\ \E input_0 \in Bit, input_1 \in Bit :
         LET r == GainesMul_step(gmul, input_0, input_1)
         IN  /\ last' = [kind |-> "GainesMul", input_0 |-> input_0,
                         input_1 |-> input_1] @@ r
             /\ hist' = Append(hist, [input_0 |-> input_0,
                                      input_1 |-> input_1] @@ r)
    /\ UNCHANGED <<env, uadd, gadd, fsumul, gmul, relu, linear>>

NextMul == FSUMul_forward \/ GainesMul_forward

SpecMul == InitMul /\ [][NextMul]_vars

\* ------------------------------------------------------------ UnaryReLU
\* ShiftReg(depth, stype): a buffer of the last depth bits pushed, oldest
\* first, empty (all 0) at construction.
ShiftReg_init(depth) == [i \in 1..depth |-> 0]

\* ShiftReg.forward(bit): the oldest bit leaves, the new one enters; returns
\* the bit that left and the number of 1s now held.
ShiftReg_push(sr, bit) ==
    LET shifted == Append(Tail(sr), bit)
    IN  [sr |-> shifted, out |-> Head(sr), cnt |-> Sum(shifted)]

\* UnaryReLU.__init__ past the depth test: an encode other than "RC" and
\* "TC" is refused.  The shift-register fields exist
\* when shiftreg is True; buf_max, buf_half and acc (at the midpoint) when encode is "RC";
\* threshold, acc and cycle (at 0) when encode is "TC".  depth_half holds
\* depth/2, which can be a half: it is kept as Fx(depth/2) = depth.
UnaryReLU_fields(depth, bitwidth, encode, shiftreg) ==
    LET base == [depth |-> depth, bitwidth |-> bitwidth,
                 encode |-> encode, sr |-> shiftreg,
                 shiftreg |-> IF shiftreg THEN ShiftReg_init(depth) ELSE <<>>,
                 depth_half |-> IF shiftreg THEN depth ELSE 0,
                 sr_cnt |-> 0,
                 init |-> shiftreg]
    IN  IF encode = "RC"
        THEN [buf_max |-> Pow2(depth) - 1,
              buf_half |-> Pow2(depth - 1),
              acc |-> Pow2(depth - 1)] @@ base
        ELSE IF encode = "TC"
        THEN [threshold |-> Pow2(bitwidth - 1),
              acc |-> 0,
              cycle |-> 0] @@ base
        ELSE Raised("ValueError")

\* Faulty variant of UnaryReLU_init: the depth test is strict.
UnaryReLU_init_strict(depth, bitwidth, encode, shiftreg) ==
    IF shiftreg /\ ~(depth < DepthLimit) THEN Raised("AssertionError")
    ELSE UnaryReLU_fields(depth, bitwidth, encode, shiftreg)

\* UnaryReLU.__init__: the depth test of the shift-register form comes
\* first, then the fields.
UnaryReLU_init(depth, bitwidth, encode, shiftreg) ==
    IF shiftreg /\ ~(depth <= DepthLimit) THEN Raised("AssertionError")
    ELSE UnaryReLU_fields(depth, bitwidth, encode, shiftreg)

\* Faulty variants of UnaryReLU_forward_rc: a strict midpoint test; an
\* update without saturation; an update with the sign reversed.
UnaryReLU_forward_rc_strict(self, input) ==
    LET half_prob_flag == B2I(self.acc > self.buf_half)
        output == BitOr(input, 1 - half_prob_flag)
    IN  [self |-> [self EXCEPT !.acc = Clamp(self.acc + (output * 2 - 1),
                                            0, self.buf_max)],
         output |-> output]

UnaryReLU_forward_rc_unforced(self, input) ==
    LET output == input
    IN  [self |-> [self EXCEPT !.acc = Clamp(self.acc + (output * 2 - 1),
                                            0, self.buf_max)],
         output |-> output]

UnaryReLU_forward_rc_unclamped(self, input) ==
    LET half_prob_flag == B2I(self.acc >= self.buf_half)
        output == BitOr(input, 1 - half_prob_flag)
    IN  [self |-> [self EXCEPT !.acc = self.acc + (output * 2 - 1)],
         output |-> output]

UnaryReLU_forward_rc_reversed(self, input) ==
    LET half_prob_flag == B2I(self.acc >= self.buf_half)
        output == BitOr(input, 1 - half_prob_flag)
    IN  [self |-> [self EXCEPT !.acc = Clamp(self.acc - (output * 2 - 1),
                                            0, self.buf_max)],
         output |-> output]

\* UnaryReLU.UnaryReLU_forward_rc on one input bit.
UnaryReLU_forward_rc(self, input) ==
    LET half_prob_flag == B2I(self.acc >= self.buf_half)
        output == BitOr(input, 1 - half_prob_flag)
    IN  [self |-> [self EXCEPT !.acc = Clamp(self.acc + (output * 2 - 1),
                                            0, self.buf_max)],
         output |-> output]

\* Faulty variant of UnaryReLU_forward_rc_sr: the output is pushed before
\* the population count is compared.
UnaryReLU_forward_rc_sr_early(self, input) ==
    LET pushed == ShiftReg_push(self.shiftreg, input)
        output == IF self.init THEN 1
                  ELSE BitOr(B2I(Fx(pushed.cnt) < self.depth_half), input)
        r == ShiftReg_push(self.shiftreg, output)
    IN  [self |-> [self EXCEPT !.init = FALSE,
                               !.shiftreg = r.sr,
                               !.sr_cnt = r.cnt],
         output |-> output]

\* UnaryReLU.UnaryReLU_forward_rc_sr on one input bit.
UnaryReLU_forward_rc_sr(self, input) ==
    LET output == IF self.init THEN 1
                  ELSE BitOr(B2I(Fx(self.sr_cnt) < self.depth_half), input)
        r == ShiftReg_push(self.shiftreg, output)
    IN  [self |-> [self EXCEPT !.init = FALSE,
                               !.shiftreg = r.sr,
                               !.sr_cnt = r.cnt],
         output |-> output]

\* Faulty variant of UnaryReLU_forward_tc: a strict first-half comparison.
UnaryReLU_forward_tc_strict(self, input) ==
    LET cycle == self.cycle + 1
        half_cycle_flag == B2I(cycle > self.threshold)
        acc == self.acc + input
        half_prob_flag == B2I(acc > self.threshold)
        output == (1 - half_cycle_flag) * B2I(cycle > acc)
                  + half_cycle_flag * half_prob_flag * input
    IN  [self |-> [self EXCEPT !.cycle = cycle, !.acc = acc],
         output |-> output]

\* UnaryReLU.UnaryReLU_forward_tc on one input bit.
UnaryReLU_forward_tc(self, input) ==
    LET cycle == self.cycle + 1
        half_cycle_flag == B2I(cycle > self.threshold)
        acc == self.acc + input
        half_prob_flag == B2I(acc > self.threshold)
        output == (1 - half_cycle_flag) * B2I(cycle >= acc)
                  + half_cycle_flag * half_prob_flag * input
    IN  [self |-> [self EXCEPT !.cycle = cycle, !.acc = acc],
         output |-> output]

\* UnaryReLU.forward: the form chosen by encode and shiftreg.
UnaryReLU_step(self, input) ==
    IF self.encode = "RC"
    THEN IF ~self.sr THEN UnaryReLU_forward_rc(self, input)
         ELSE UnaryReLU_forward_rc_sr(self, input)
    ELSE UnaryReLU_forward_tc(self, input)

\* The depths at and above DepthLimit are tried where 2^depth is not
\* computed: with an encode other than "RC", or where the depth is refused.
InitReLU ==
    /\ \E d \in (1..MaxDepth) \cup {DepthLimit, DepthLimit + 1},
          w \in 1..MaxBitwidth,
          e \in {"RC", "TC", "other"}, sr \in BOOLEAN :
         /\ d > MaxDepth => (e /= "RC" \/ (sr /\ d > DepthLimit))
         /\ env = [kind |-> "UnaryReLU", depth |-> d, encode |-> e,
                   shiftreg |-> sr]
         /\ relu = UnaryReLU_init(d, w, e, sr)
    /\ uadd = Idle /\ gadd = Idle /\ fsumul = Idle /\ gmul = Idle /\ linear = Idle
    /\ last = Idle
    /\ hist = <<>>

UnaryReLU_forward ==
    /\ env.kind = "UnaryReLU"
    /\ relu \notin {Raised("ValueError"), Raised("AssertionError")}
    /\ Len(hist) < 2 * MaxCycles
    /\ \E input \in Bit :
         LET r == UnaryReLU_step(relu, input)
         IN  /\ relu' = r.self
             /\ last' = [kind |-> "UnaryReLU", input |-> input,
                         output |-> r.output, pre |-> relu]
             /\ hist' = Append(hist, [input |-> input, output |-> r.output,
                                      before |-> relu.acc, after |-> r.self.acc])
    /\ UNCHANGED <<env, uadd, gadd, fsumul, gmul, linear>>

NextReLU == UnaryReLU_forward

SpecReLU == InitReLU /\ [][NextReLU]_vars

\* ---------------------------------------------------------- UnaryLinear
\* The levels a weight or bias takes here: all-zero stream, half, all-one.
WeightLevels(bitwidth) == {0, Pow2(bitwidth - 1), Pow2(bitwidth)}

\* UnaryLinear.__init__: bound and offset from the shape, counters and
\* accumulators at zero.  binary_weight is the weight row of the one output
\* lane modelled; rng_wght_idx_inv only exists in bipolar mode.
UnaryLinear_init(in_features, bias, mode, scaled, bitwidth, binary_weight, binary_bias) ==
    [in_features |-> in_features, has_bias |-> bias,
     mode |-> mode, scaled |-> scaled, bitwidth |-> bitwidth,
     acc_bound |-> Fx(in_features) + (IF bias THEN Fx(1) ELSE 0),
     offset |-> IF mode = "unipolar" THEN 0
                ELSE (Fx(in_features) - Fx(1)) \div 2
                     + (IF bias THEN Fx(1) \div 2 ELSE 0),
     rng |-> [i \in 1..Pow2(bitwidth) |-> BitRev(i - 1, bitwidth)],
     buf_wght |-> binary_weight, buf_bias |-> binary_bias,
     rng_wght_idx |-> [i \in 1..in_features |-> 0],
     rng_bias_idx |-> 0,
     rng_wght_idx_inv |-> [i \in 1..in_features |-> 0],
     accumulator |-> Fx(0), out_accumulator |-> Fx(0)]

\* Faulty variant of UnaryKernel_accumulation: the inverse weight counter
\* follows the input bit instead of its complement.
UnaryKernel_accumulation_follow(self, input) ==
    LET F == 1..self.in_features
        weight == [i \in F |-> BSGen(self.buf_wght[i], self.rng, self.rng_wght_idx[i])]
        bias == IF self.has_bias
                THEN BSGen(self.buf_bias, self.rng, self.rng_bias_idx) ELSE 0
        s1 == [self EXCEPT
                 !.rng_wght_idx = [i \in F |-> self.rng_wght_idx[i] + input[i]],
                 !.rng_bias_idx = IF self.has_bias THEN self.rng_bias_idx + 1
                                  ELSE self.rng_bias_idx]
        kernel_out == Sum([i \in F |-> input[i] * weight[i]]) + bias
    IN  IF self.mode = "unipolar"
        THEN [self |-> s1, out |-> kernel_out]
        ELSE LET weight_inv == [i \in F |->
                     1 - BSGen(s1.buf_wght[i], s1.rng, s1.rng_wght_idx_inv[i])]
                 s2 == [s1 EXCEPT !.rng_wght_idx_inv =
                          [i \in F |-> s1.rng_wght_idx_inv[i] + input[i]]]
                 kernel_out_inv == Sum([i \in F |-> (1 - input[i]) * weight_inv[i]])
             IN  [self |-> s2, out |-> kernel_out + kernel_out_inv]

\* UnaryLinear.UnaryKernel_accumulation: the weight and bias bits of this
\* cycle, the counter advances, and the count of the lanes that pass.
UnaryKernel_accumulation(self, input) ==
    LET F == 1..self.in_features
        weight == [i \in F |-> BSGen(self.buf_wght[i], self.rng, self.rng_wght_idx[i])]
        bias == IF self.has_bias
                THEN BSGen(self.buf_bias, self.rng, self.rng_bias_idx) ELSE 0
        s1 == [self EXCEPT
                 !.rng_wght_idx = [i \in F |-> self.rng_wght_idx[i] + input[i]],
                 !.rng_bias_idx = IF self.has_bias THEN self.rng_bias_idx + 1
                                  ELSE self.rng_bias_idx]
        kernel_out == Sum([i \in F |-> input[i] * weight[i]]) + bias
    IN  IF self.mode = "unipolar"
        THEN [self |-> s1, out |-> kernel_out]
        ELSE LET weight_inv == [i \in F |->
                     1 - BSGen(s1.buf_wght[i], s1.rng, s1.rng_wght_idx_inv[i])]
                 s2 == [s1 EXCEPT !.rng_wght_idx_inv =
                          [i \in F |-> s1.rng_wght_idx_inv[i] + (1 - input[i])]]
                 kernel_out_inv == Sum([i \in F |-> (1 - input[i]) * weight_inv[i]])
             IN  [self |-> s2, out |-> kernel_out + kernel_out_inv]

\* UnaryLinear.forward, the part after the kernel: scaled or rate-coded
\* accumulation of the count.
UnaryLinear_accumulate(self, kernel_out_total) ==
    LET acc == self.accumulator + Fx(kernel_out_total)
    IN  IF self.scaled
        THEN LET output == B2I(acc >= self.acc_bound)
             IN  [self |-> [self EXCEPT !.accumulator = acc - output * self.acc_bound],
                  output |-> output]
        ELSE LET acc2 == acc - self.offset
                 output == B2I(acc2 > self.out_accumulator)
             IN  [self |-> [self EXCEPT
                              !.accumulator = acc2,
                              !.out_accumulator = self.out_accumulator + Fx(output)],
                  output |-> output]

\* UnaryLinear.forward on the 0/1 input vector of one cycle.
UnaryLinear_step(self, input) ==
    LET k == UnaryKernel_accumulation(self, input)
        r == UnaryLinear_accumulate(k.self, k.out)
    IN  [self |-> r.self, output |-> r.output, count |-> k.out]

InitUnaryLinear ==
    /\ env = [kind |-> "UnaryLinear"]
    /\ \E n \in 1..MaxFeatures, b \in BOOLEAN, m \in Modes, s \in BOOLEAN,
          w \in {MaxBitwidth} :
         \E bw \in [1..n -> WeightLevels(w)], bb \in WeightLevels(w) :
            /\ (~b => bb = 0)
            /\ linear = UnaryLinear_init(n, b, m, s, w, bw, bb)
    /\ uadd = Idle /\ gadd = Idle /\ fsumul = Idle /\ gmul = Idle /\ relu = Idle
    /\ last = Idle
    /\ hist = <<>>

UnaryLinear_forward ==
    /\ env.kind = "UnaryLinear"
    /\ Len(hist) < MaxLinCycles
    /\ \E input \in BitVectors(linear.in_features) :
         LET r == UnaryLinear_step(linear, input)
         IN  /\ linear' = r.self
             /\ last' = [kind |-> "UnaryLinear", input |-> input,
                         output |-> r.output, count |-> r.count,
                         pre |-> linear]
             /\ hist' = Append(hist, [ones |-> r.count, output |-> r.output,
                                      before |-> linear.accumulator,
                                      after |-> r.self.accumulator])
    /\ UNCHANGED <<env, uadd, gadd, fsumul, gmul, relu>>

\* -------------------------------------------------------- GainesLinear2
\* RNGMulti(bitwidth, in_features, ...)(): one index sequence per input lane
RNGMulti(bitwidth, in_features) ==
    LET P == Pow2(bitwidth)
    IN  [i \in 1..in_features |->
           IF i % 2 = 1 THEN [k \in 1..P |-> BitRev(k - 1, bitwidth)]
           ELSE [k \in 1..P |-> P - k]]

\* BSGenMulti(source, rng, dim=0)(rng_idx): lane i reads its own sequence
BSGenMulti(source, rng, rng_idx) ==
    [i \in DOMAIN source |-> BSGen(source[i], rng[i], rng_idx[i])]

\* GainesLinear2.__init__: as UnaryLinear, with one sequence per input lane
\* and no inverse counters.
GainesLinear2_init(in_features, bias, mode, scaled, bitwidth, binary_weight, binary_bias) ==
    [in_features |-> in_features, has_bias |-> bias,
     mode |-> mode, scaled |-> scaled, bitwidth |-> bitwidth,
     acc_bound |-> Fx(in_features) + (IF bias THEN Fx(1) ELSE 0),
     offset |-> IF mode = "unipolar" THEN 0
                ELSE (Fx(in_features) - Fx(1)) \div 2
                     + (IF bias THEN Fx(1) \div 2 ELSE 0),
     rng |-> RNGMulti(bitwidth, in_features),
     rng_bias |-> [k \in 1..Pow2(bitwidth) |-> BitRev(k - 1, bitwidth)],
     buf_wght |-> binary_weight, buf_bias |-> binary_bias,
     rng_wght_idx |-> [i \in 1..in_features |-> 0],
     rng_bias_idx |-> 0,
     accumulator |-> Fx(0), out_accumulator |-> Fx(0)]

\* GainesLinear2.GainesKernel_accumulation: every counter advances each
\* cycle; the inverse pass reuses the complement of the same weight bits.
GainesKernel_accumulation(self, input) ==
    LET F == 1..self.in_features
        weight == BSGenMulti(self.buf_wght, self.rng, self.rng_wght_idx)
        bias == IF self.has_bias
                THEN BSGen(self.buf_bias, self.rng_bias, self.rng_bias_idx) ELSE 0
        s1 == [self EXCEPT
                 !.rng_wght_idx = [i \in F |-> self.rng_wght_idx[i] + 1],
                 !.rng_bias_idx = IF self.has_bias THEN self.rng_bias_idx + 1
                                  ELSE self.rng_bias_idx]
        kernel_out == Sum([i \in F |-> input[i] * weight[i]]) + bias
        kernel_out_inv == Sum([i \in F |-> (1 - input[i]) * (1 - weight[i])])
    IN  IF self.mode = "unipolar"
        THEN [self |-> s1, out |-> kernel_out]
        ELSE [self |-> s1, out |-> kernel_out + kernel_out_inv]

\* GainesLinear2.forward on the 0/1 input vector of one cycle.
GainesLinear2_step(self, input) ==
    LET k == GainesKernel_accumulation(self, input)
        acc == k.self.accumulator + Fx(k.out)
    IN  IF self.scaled
        THEN LET output == B2I(acc >= self.acc_bound)
             IN  [self |-> [k.self EXCEPT
                              !.accumulator = acc - output * self.acc_bound],
                  output |-> output, count |-> k.out]
        ELSE LET acc2 == acc - self.offset
                 output == B2I(acc2 > self.out_accumulator)
             IN  [self |-> [k.self EXCEPT
                              !.accumulator = acc2,
                              !.out_accumulator = self.out_accumulator + Fx(output)],
                  output |-> output, count |-> k.out]

InitGaines2 ==
    /\ env = [kind |-> "GainesLinear2"]
    /\ \E n \in 1..MaxFeatures, b \in BOOLEAN, m \in Modes, s \in BOOLEAN,
          w \in {MaxBitwidth} :
         \E bw \in [1..n -> WeightLevels(w)], bb \in WeightLevels(w) :
            /\ (~b => bb = 0)
            /\ linear = GainesLinear2_init(n, b, m, s, w, bw, bb)
    /\ uadd = Idle /\ gadd = Idle /\ fsumul = Idle /\ gmul = Idle /\ relu = Idle
    /\ last = Idle
    /\ hist = <<>>

GainesLinear2_forward ==
    /\ env.kind = "GainesLinear2"
    /\ Len(hist) < MaxLinCycles
    /\ \E input \in BitVectors(linear.in_features) :
         LET r == GainesLinear2_step(linear, input)
         IN  /\ linear' = r.self
             /\ last' = [kind |-> "GainesLinear2", input |-> input,
                         output |-> r.output, count |-> r.count,
                         pre |-> linear]
             /\ hist' = Append(hist, [ones |-> r.count, output |-> r.output,
                                      before |-> linear.accumulator,
                                      after |-> r.self.accumulator])
    /\ UNCHANGED <<env, uadd, gadd, fsumul, gmul, relu>>

InitLinear == InitUnaryLinear \/ InitGaines2

NextLinear == UnaryLinear_forward \/ GainesLinear2_forward

SpecLinear == InitLinear /\ [][NextLinear]_vars

\* ------------------------------------- GainesLinear1 / GainesLinear3 / GainesLinear4
\* The three classes that keep a saturating counter.  cls is the class name.
GainesClasses == {"GainesLinear1", "GainesLinear3", "GainesLinear4"}

\* round(math.log2(n)) for a whole n >= 1: the k with 2^(k-1/2) <= n < 2^(k+1/2)
RoundLog2(n) == CHOOSE k \in 0..n : Pow2(2 * k) <= 2 * n * n /\ 2 * n * n < Pow2(2 * k + 2)

\* __init__ of the three classes.  GainesLinear3 reads one sequence for all
\* lanes and is the only one to read rng_wght_idx_inv; GainesLinear1 and
\* GainesLinear4 read one sequence per lane.  rng_scale and its counter exist
\* only when scaled, and input_cnt, max, half_max and cnt only when not.
GainesLinear1_init(cls, in_features, bias, mode, scaled, depth, bitwidth, binary_weight, binary_bias) ==
    LET acc_bound == in_features + (IF bias THEN 1 ELSE 0)
        single == [k \in 1..Pow2(bitwidth) |-> BitRev(k - 1, bitwidth)]
        base == [cls |-> cls, in_features |-> in_features, has_bias |-> bias,
                 mode |-> mode, scaled |-> scaled, bitwidth |-> bitwidth,
                 acc_bound |-> acc_bound,
                 offset |-> IF mode = "unipolar" THEN 0
                            ELSE (Fx(in_features) - Fx(1)) \div 2
                                 + (IF bias THEN Fx(1) \div 2 ELSE 0),
                 rng |-> IF cls = "GainesLinear3" THEN single
                         ELSE RNGMulti(bitwidth, in_features),
                 rng_bias |-> single,
                 buf_wght |-> binary_weight, buf_bias |-> binary_bias,
                 rng_wght_idx |-> [i \in 1..in_features |-> 0],
                 rng_bias_idx |-> 0,
                 rng_wght_idx_inv |-> [i \in 1..in_features |-> 0],
                 parallel_cnt |-> 0]
    IN  IF scaled
        THEN base @@ [rng_scale |-> [k \in 1..Pow2(RoundLog2(acc_bound)) |->
                                       BitRev(k - 1, RoundLog2(acc_bound))],
                      rng_scale_idx |-> 0]
        ELSE base @@ [input_cnt |-> acc_bound,
                      max |-> Pow2(depth) - 1,
                      half_max |-> Pow2(depth - 1),
                      cnt |-> Pow2(depth - 1)]

\* GainesLinear3.UnaryKernel_accumulation: a weight counter advances only on
\* a 1 input, its inverse counter only on a 0 input.
GainesLinear3_accumulation(self, input) ==
    LET F == 1..self.in_features
        weight == [i \in F |-> BSGen(self.buf_wght[i], self.rng, self.rng_wght_idx[i])]
        bias == IF self.has_bias
                THEN BSGen(self.buf_bias, self.rng, self.rng_bias_idx) ELSE 0
        s1 == [self EXCEPT
                 !.rng_wght_idx = [i \in F |-> self.rng_wght_idx[i] + input[i]],
                 !.rng_bias_idx = IF self.has_bias THEN self.rng_bias_idx + 1
                                  ELSE self.rng_bias_idx]
        kernel_out == Sum([i \in F |-> input[i] * weight[i]]) + bias
    IN  IF self.mode = "unipolar"
        THEN [self |-> s1, out |-> kernel_out]
        ELSE LET weight_inv == [i \in F |->
                     1 - BSGen(s1.buf_wght[i], s1.rng, s1.rng_wght_idx_inv[i])]
                 s2 == [s1 EXCEPT !.rng_wght_idx_inv =
                          [i \in F |-> s1.rng_wght_idx_inv[i] + (1 - input[i])]]
                 kernel_out_inv == Sum([i \in F |-> (1 - input[i]) * weight_inv[i]])
             IN  [self |-> s2, out |-> kernel_out + kernel_out_inv]

\* Faulty variant of the part of forward after the kernel: the counter is
\* not clamped.
GainesLinear1_count_unclamped(self, kernel_out) ==
    IF self.scaled
    THEN LET threshold == self.rng_scale[(self.rng_scale_idx % Len(self.rng_scale)) + 1]
         IN  [self |-> [self EXCEPT !.parallel_cnt = kernel_out,
                                    !.rng_scale_idx = self.rng_scale_idx + 1],
              output |-> B2I(kernel_out >= threshold)]
    ELSE IF self.mode = "unipolar"
    THEN [self |-> [self EXCEPT !.parallel_cnt = kernel_out],
          output |-> B2I(kernel_out > 0)]
    ELSE LET parallel_cnt == kernel_out * 2 - self.input_cnt
             cnt == self.cnt + parallel_cnt
         IN  [self |-> [self EXCEPT !.parallel_cnt = parallel_cnt, !.cnt = cnt],
              output |-> B2I(cnt > self.half_max)]

\* forward of the three classes, the part after the kernel: the count of
\* this cycle is compared with the scaling sequence (scaled), with zero
\* (non-scaled unipolar), or doubled, recentred and added to the saturating
\* counter (non-scaled bipolar).
GainesLinear1_count(self, kernel_out) ==
    IF self.scaled
    THEN LET threshold == self.rng_scale[(self.rng_scale_idx % Len(self.rng_scale)) + 1]
         IN  [self |-> [self EXCEPT !.parallel_cnt = kernel_out,
                                    !.rng_scale_idx = self.rng_scale_idx + 1],
              output |-> B2I(kernel_out >= threshold)]
    ELSE IF self.mode = "unipolar"
    THEN [self |-> [self EXCEPT !.parallel_cnt = kernel_out],
          output |-> B2I(kernel_out > 0)]
    ELSE LET parallel_cnt == kernel_out * 2 - self.input_cnt
             cnt == Clamp(self.cnt + parallel_cnt, 0, self.max)
         IN  [self |-> [self EXCEPT !.parallel_cnt = parallel_cnt, !.cnt = cnt],
              output |-> B2I(cnt > self.half_max)]

\* forward of the three classes on the 0/1 input vector of one cycle
GainesLinear1_step(self, input) ==
    LET k == IF self.cls = "GainesLinear3"
             THEN GainesLinear3_accumulation(self, input)
             ELSE GainesKernel_accumulation(self, input)
        r == GainesLinear1_count(k.self, k.out)
    IN  [self |-> r.self, output |-> r.output, count |-> k.out]

InitGainesCnt ==
    /\ \E cls \in GainesClasses, n \in 1..MaxFeatures, b \in BOOLEAN,
          m \in Modes, s \in BOOLEAN, d \in 1..MaxDepth, w \in {MaxBitwidth} :
         \E bw \in [1..n -> WeightLevels(w)], bb \in WeightLevels(w) :
            /\ bb = (IF b THEN Pow2(w - 1) ELSE 0)
            /\ (s => d = 1)
            /\ env = [kind |-> cls, depth |-> d]
            /\ linear = GainesLinear1_init(cls, n, b, m, s, d, w, bw, bb)
    /\ uadd = Idle /\ gadd = Idle /\ fsumul = Idle /\ gmul = Idle /\ relu = Idle
    /\ last = Idle
    /\ hist = <<>>

GainesLinear1_forward ==
    /\ env.kind \in GainesClasses
    /\ Len(hist) < MaxLinCycles
    /\ \E input \in BitVectors(linear.in_features) :
         LET r == GainesLinear1_step(linear, input)
         IN  /\ linear' = r.self
             /\ last' = [kind |-> env.kind, input |-> input,
                         output |-> r.output, count |-> r.count,
                         pre |-> linear]
             /\ hist' = Append(hist, [ones |-> r.count, output |-> r.output])
    /\ UNCHANGED <<env, uadd, gadd, fsumul, gmul, relu>>

NextGainesCnt == GainesLinear1_forward

SpecGainesCnt == InitGainesCnt /\ [][NextGainesCnt]_vars

\* ---------------------------------------------------------- FSULinearPC
\* The hwcfg "rng" names a caller passes
RngNames == {"Sobol", "Race", "tc"}

\* str.lower() on those names
Lower(s) == CASE s = "Sobol" -> "sobol"
              [] s = "Race" -> "race"
              [] OTHER -> s

\* Truth value of the Python expression (a or s) for a bool a and a str s:
\* a when a is True, else the truth value of s, True for a non-empty string.
PyOrStr(a, s) == IF a THEN TRUE ELSE s /= ""

\* RNG(hwcfg, swcfg)(): the index sequence of the named source, counting up
\* for the temporal sources and radical-inverse otherwise.
RNGNamed(width, name) ==
    IF Lower(name) \in {"race", "tc"}
    THEN [k \in 1..Pow2(width) |-> k - 1]
    ELSE [k \in 1..Pow2(width) |-> BitRev(k - 1, width)]

\* batch copies of the tensor t joined along the batch dimension
Cat(batch, t) == [k \in 1..(batch * Len(t)) |-> t[((k - 1) % Len(t)) + 1]]

\* lane b of a tensor that is broadcast along the batch dimension when it
\* has a single lane
Lane(t, b) == IF Len(t) = 1 THEN t[1] ELSE t[b]

\* FSULinearPC.__init__ for one output lane: wtc from the rng name, the
\* weight counters (batch dimension 1) and the bias counter at zero; the
\* inverse weight counter wrdx_i0 only exists in bipolar mode with wtc False.
FSULinearPC_init(in_features, bias, mode, rng, width, weight, bias_data) ==
    LET wtc == IF PyOrStr(Lower(rng) = "race", "tc") THEN TRUE ELSE FALSE
        base == [in_features |-> in_features, has_bias |-> bias,
                 mode |-> mode, width |-> width, hwcfg_rng |-> rng,
                 wrng |-> RNGNamed(width, rng),
                 wtc |-> wtc,
                 weight |-> weight, bias |-> bias_data,
                 brng |-> RNGNamed(width, "sobol"),
                 wrdx_i1 |-> << [i \in 1..in_features |-> 0] >>,
                 brdx |-> 0]
    IN  IF mode = "bipolar" /\ ~wtc
        THEN [wrdx_i0 |-> << [i \in 1..in_features |-> 0] >>] @@ base
        ELSE base

\* the weight bits of every batch lane of the counter tensor wrdx
WeightBits(self, wrdx) ==
    [b \in 1..Len(wrdx) |->
       [i \in 1..self.in_features |->
          BSGen(self.weight[i], self.wrng, wrdx[b][i])]]

\* FSULinearPC.FSULinear_PC_wrc: the weight bits and their counters are
\* repeated batch times when their batch dimension is not the input's; the
\* weight counters of a lane advance by the input bits of the lane, the
\* inverse counters of the bipolar pass by their complement.
FSULinear_PC_wrc(self, input) ==
    LET F == 1..self.in_features
        batch == Len(input)
        wbit == WeightBits(self, self.wrdx_i1)
        wbit_i1 == IF Len(wbit) /= batch THEN Cat(batch, wbit) ELSE wbit
        wrdx_i1 == IF Len(wbit) /= batch THEN Cat(batch, self.wrdx_i1)
                   ELSE self.wrdx_i1
        s1 == [self EXCEPT !.wrdx_i1 =
                 [b \in 1..Len(wrdx_i1) |->
                    [i \in F |-> wrdx_i1[b][i] + Lane(input, b)[i]]]]
        bbit == IF self.has_bias THEN BSGen(self.bias, self.brng, self.brdx) ELSE 0
        s2 == IF self.has_bias THEN [s1 EXCEPT !.brdx = self.brdx + 1] ELSE s1
        out_i1 == [b \in 1..Len(wbit_i1) |->
                     Sum([i \in F |-> Lane(input, b)[i] * wbit_i1[b][i]]) + bbit]
    IN  IF self.mode = "unipolar"
        THEN [self |-> s2, output |-> out_i1]
        ELSE LET wbit0 == WeightBits(s2, s2.wrdx_i0)
                 wbit_i0 == IF Len(wbit0) /= batch THEN Cat(batch, wbit0)
                            ELSE wbit0
                 wrdx_i0 == IF Len(wbit0) /= batch THEN Cat(batch, s2.wrdx_i0)
                            ELSE s2.wrdx_i0
                 s3 == [s2 EXCEPT !.wrdx_i0 =
                          [b \in 1..Len(wrdx_i0) |->
                             [i \in F |-> wrdx_i0[b][i]
                                            + (1 - Lane(input, b)[i])]]]
                 out_i0 == [b \in 1..Len(wbit_i0) |->
                              Sum([i \in F |-> (1 - Lane(input, b)[i])
                                                * (1 - wbit_i0[b][i])])]
             IN  [self |-> s3,
                  output |-> [b \in 1..Len(out_i1) |-> out_i1[b] + out_i0[b]]]

\* Faulty variant of FSULinear_PC_wtc: the bipolar pass over the 0 inputs is
\* left out.
FSULinear_PC_wtc_single(self, input) ==
    LET F == 1..self.in_features
        batch == Len(input)
        wbit == WeightBits(self, self.wrdx_i1)
        wbit_i1 == IF Len(wbit) /= batch THEN Cat(batch, wbit) ELSE wbit
        wrdx_i1 == IF Len(wbit) /= batch THEN Cat(batch, self.wrdx_i1)
                   ELSE self.wrdx_i1
        s1 == [self EXCEPT !.wrdx_i1 =
                 [b \in 1..Len(wrdx_i1) |-> [i \in F |-> wrdx_i1[b][i] + 1]]]
        bbit == IF self.has_bias THEN BSGen(self.bias, self.brng, self.brdx) ELSE 0
        s2 == IF self.has_bias THEN [s1 EXCEPT !.brdx = self.brdx + 1] ELSE s1
        out_i1 == [b \in 1..Len(wbit_i1) |->
                     Sum([i \in F |-> Lane(input, b)[i] * wbit_i1[b][i]]) + bbit]
    IN  [self |-> s2, output |-> out_i1]

\* Faulty variant of FSULinear_PC_wtc: the weight bits are read after the
\* counters have advanced.
FSULinear_PC_wtc_late(self, input) ==
    LET F == 1..self.in_features
        batch == Len(input)
        wrdx_i1 == IF Len(self.wrdx_i1) /= batch THEN Cat(batch, self.wrdx_i1)
                   ELSE self.wrdx_i1
        s1 == [self EXCEPT !.wrdx_i1 =
                 [b \in 1..Len(wrdx_i1) |-> [i \in F |-> wrdx_i1[b][i] + 1]]]
        wbit_i1 == WeightBits(self, s1.wrdx_i1)
        bbit == IF self.has_bias THEN BSGen(self.bias, self.brng, self.brdx) ELSE 0
        s2 == IF self.has_bias THEN [s1 EXCEPT !.brdx = self.brdx + 1] ELSE s1
        out_i1 == [b \in 1..Len(wbit_i1) |->
                     Sum([i \in F |-> Lane(input, b)[i] * wbit_i1[b][i]]) + bbit]
        out_i0 == [b \in 1..Len(wbit_i1) |->
                     Sum([i \in F |-> (1 - Lane(input, b)[i])
                                       * (1 - wbit_i1[b][i])])]
    IN  IF self.mode = "unipolar"
        THEN [self |-> s2, output |-> out_i1]
        ELSE [self |-> s2,
              output |-> [b \in 1..Len(out_i1) |-> out_i1[b] + out_i0[b]]]

\* FSULinearPC.FSULinear_PC_wtc: the weight bits and their counters are
\* repeated batch times when their batch dimension is not the input's; every
\* weight counter advances by one; the bipolar pass reuses the complement of
\* the same weight bits.
FSULinear_PC_wtc(self, input) ==
    LET F == 1..self.in_features
        batch == Len(input)
        wbit == WeightBits(self, self.wrdx_i1)
        wbit_i1 == IF Len(wbit) /= batch THEN Cat(batch, wbit) ELSE wbit
        wrdx_i1 == IF Len(wbit) /= batch THEN Cat(batch, self.wrdx_i1)
                   ELSE self.wrdx_i1
        s1 == [self EXCEPT !.wrdx_i1 =
                 [b \in 1..Len(wrdx_i1) |-> [i \in F |-> wrdx_i1[b][i] + 1]]]
        bbit == IF self.has_bias THEN BSGen(self.bias, self.brng, self.brdx) ELSE 0
        s2 == IF self.has_bias THEN [s1 EXCEPT !.brdx = self.brdx + 1] ELSE s1
        out_i1 == [b \in 1..Len(wbit_i1) |->
                     Sum([i \in F |-> Lane(input, b)[i] * wbit_i1[b][i]]) + bbit]
        out_i0 == [b \in 1..Len(wbit_i1) |->
                     Sum([i \in F |-> (1 - Lane(input, b)[i])
                                       * (1 - wbit_i1[b][i])])]
    IN  IF self.mode = "unipolar"
        THEN [self |-> s2, output |-> out_i1]
        ELSE [self |-> s2,
              output |-> [b \in 1..Len(out_i1) |-> out_i1[b] + out_i0[b]]]

\* FSULinearPC.forward: the policy is the one wtc names.
FSULinearPC_step(self, input) ==
    IF self.wtc THEN FSULinear_PC_wtc(self, input)
    ELSE FSULinear_PC_wrc(self, input)

\* A layer that is called with one batch lane.
InitPC ==
    /\ env = [kind |-> "FSULinearPC", batch |-> 1]
    /\ \E n \in 1..MaxFeatures, b \in BOOLEAN, m \in Modes, r \in RngNames,
          w \in {MaxBitwidth} :
         \E wt \in [1..n -> WeightLevels(w)], bb \in WeightLevels(w) :
            /\ (~b => bb = 0)
            /\ linear = FSULinearPC_init(n, b, m, r, w, wt, bb)
    /\ uadd = Idle /\ gadd = Idle /\ fsumul = Idle /\ gmul = Idle /\ relu = Idle
    /\ last = Idle
    /\ hist = <<>>

\* A layer without bias that is called with the same batch size all its
\* life; the input features and the batch lanes together stay within
\* MaxCells bits.
InitBatch ==
    /\ \E n \in 1..MaxFeatures, batch \in 1..MaxBatch, m \in Modes,
          r \in RngNames, w \in {MaxBitwidth} :
         \E wt \in [1..n -> {0, Pow2(w)}] :
            /\ n * batch <= MaxCells
            /\ env = [kind |-> "FSULinearPC", batch |-> batch]
            /\ linear = FSULinearPC_init(n, FALSE, m, r, w, wt, 0)
    /\ uadd = Idle /\ gadd = Idle /\ fsumul = Idle /\ gmul = Idle /\ relu = Idle
    /\ last = Idle
    /\ hist = <<>>

\* One call of forward on an input of env.batch lanes; the output has one
\* count per batch lane.
FSULinearPC_forward ==
    /\ env.kind = "FSULinearPC"
    /\ Len(hist) < MaxLinCycles
    /\ \E input \in [1..env.batch -> BitVectors(linear.in_features)] :
         LET r == FSULinearPC_step(linear, input)
         IN  /\ linear' = r.self
             /\ last' = [kind |-> "FSULinearPC", input |-> input,
                         output |-> r.output, pre |-> linear]
             /\ hist' = Append(hist, [output |-> r.output])
    /\ UNCHANGED <<env, uadd, gadd, fsumul, gmul, relu>>

NextPC == FSULinearPC_forward

SpecPC == InitPC /\ [][NextPC]_vars

SpecBatch == InitBatch /\ [][NextPC]_vars

\* ------------------------------------------------------------ FXPLinear
\* the keep_res and more_res strings a caller passes
KeepResArgs == {"input", "output", "other"}
MoreResArgs == {"input", "weight", "other"}

\* an optional value: None, or a value that has been stored
None == [given |-> FALSE]
Some(v) == [given |-> TRUE, value |-> v]

\* the rounding modes FXPLinear.forward tells apart
RoundingArgs == {"round", "floor", "ceil"}

\* the bitwidth argument: <<b>> for an integer b, <<b0, b1>> for a tuple
IsTuple(bitwidth) == Len(bitwidth) = 2

\* the fields FXPLinear.__init__ sets once the two magnitude widths are known
FXPLinear_fields(bw_input, bw_wght, rounding, weight) ==
    [bw_input |-> bw_input, bw_wght |-> bw_wght,
     max_abs_input |-> Pow2(bw_input), max_abs_wght |-> Pow2(bw_wght),
     rounding |-> rounding, weight |-> weight,
     rshift_input |-> None, rshift_wght |-> None, rshift_output |-> None]

FXPLinear_init_eager(bitwidth, keep_res, more_res, rounding, weight) ==
    LET b == bitwidth[1]
    IN  IF more_res \notin {"input", "weight"} THEN Raised("ValueError")
        ELSE IF IsTuple(bitwidth)
        THEN FXPLinear_fields(bitwidth[1] - 1, bitwidth[2] - 1, rounding, weight)
        ELSE IF keep_res = "input"
        THEN FXPLinear_fields(b - 1, b - 1, rounding, weight)
        ELSE IF keep_res = "output"
        THEN IF b % 2 = 0
             THEN FXPLinear_fields(b \div 2 - 1, b \div 2 - 1, rounding, weight)
             ELSE IF more_res = "input"
             THEN FXPLinear_fields((b + 1) \div 2 - 1, (b - 1) \div 2 - 1,
                                   rounding, weight)
             ELSE FXPLinear_fields((b - 1) \div 2 - 1, (b + 1) \div 2 - 1,
                                   rounding, weight)
        ELSE Raised("ValueError")

\* FXPLinear.__init__: the magnitude bits of input and weight. A tuple gives
\* them directly; for an integer a keep_res that is neither value is refused,
\* a more_res that is neither value only when it is consulted (keep_res
\* "output" with an odd bitwidth).
FXPLinear_init(bitwidth, keep_res, more_res, rounding, weight) ==
    LET b == bitwidth[1]
    IN  IF IsTuple(bitwidth)
        THEN FXPLinear_fields(bitwidth[1] - 1, bitwidth[2] - 1, rounding, weight)
        ELSE IF keep_res = "input"
        THEN FXPLinear_fields(b - 1, b - 1, rounding, weight)
        ELSE IF keep_res = "output"
        THEN IF b % 2 = 0
             THEN FXPLinear_fields(b \div 2 - 1, b \div 2 - 1, rounding, weight)
             ELSE IF more_res = "input"
             THEN FXPLinear_fields((b + 1) \div 2 - 1, (b - 1) \div 2 - 1,
                                   rounding, weight)
             ELSE IF more_res = "weight"
             THEN FXPLinear_fields((b - 1) \div 2 - 1, (b + 1) \div 2 - 1,
                                   rounding, weight)
             ELSE Raised("ValueError")
        ELSE Raised("ValueError")

\* largest magnitude of a tensor
RECURSIVE AbsMax(_)
AbsMax(t) ==
    IF t = <<>> THEN 0
    ELSE LET a == IF t[1] < 0 THEN 0 - t[1] ELSE t[1]
             r == AbsMax(Tail(t))
         IN  IF a > r THEN a ELSE r

\* log2 of an integer m >= 1, rounded down
FloorLog2(m) == CHOOSE e \in 0..m : Pow2(e) <= m /\ m < Pow2(e + 1)

\* t.abs().max().log2() under the layer's rounding mode (m >= 1)
Log2Rounded(m, rounding) ==
    LET e == FloorLog2(m)
    IN  IF Pow2(e) = m THEN e
        ELSE IF rounding = "floor" THEN e
        ELSE IF rounding = "ceil" THEN e + 1
        ELSE IF m * m < Pow2(2 * e + 1) THEN e ELSE e + 1

\* torch.round(v >> r) of a float v holding an integer: v / 2^r, halves to
\* the even neighbour
RoundShift(v, r) ==
    IF r <= 0 THEN v * Pow2(0 - r)
    ELSE LET d == Pow2(r)
             q == v \div d
             m == v % d
         IN  IF 2 * m < d THEN q
             ELSE IF 2 * m > d THEN q + 1
             ELSE IF q % 2 = 0 THEN q ELSE q + 1

RECURSIVE Dot(_, _)
Dot(a, b) == IF a = <<>> THEN 0 ELSE a[1] * b[1] + Dot(Tail(a), Tail(b))

FXPLinearFunction_forward_open(input, weight, ri, rw, ro, max_abs_input, max_abs_wght) ==
    LET input_round == [i \in 1..Len(input) |->
                          Clamp(RoundShift(input[i], ri),
                                0 - max_abs_input, max_abs_input)]
        wght_round == [i \in 1..Len(weight) |->
                         Clamp(RoundShift(weight[i], rw),
                               0 - max_abs_wght, max_abs_wght)]
    IN  [input_round |-> input_round, wght_round |-> wght_round,
         output |-> [acc |-> Dot(input_round, wght_round),
                     rshift |-> ro]]

\* FXPLinearFunction.forward for one output lane without bias: both operands
\* are shifted, rounded and clamped to [-max_abs, max_abs - 1]; the output is
\* their product sum shifted by rshift_output (kept as the pair of the sum
\* and the shift, its value being acc / 2^rshift).
FXPLinearFunction_forward(input, weight, ri, rw, ro, max_abs_input, max_abs_wght) ==
    LET input_round == [i \in 1..Len(input) |->
                          Clamp(RoundShift(input[i], ri),
                                0 - max_abs_input, max_abs_input - 1)]
        wght_round == [i \in 1..Len(weight) |->
                         Clamp(RoundShift(weight[i], rw),
                               0 - max_abs_wght, max_abs_wght - 1)]
    IN  [input_round |-> input_round, wght_round |-> wght_round,
         output |-> [acc |-> Dot(input_round, wght_round),
                     rshift |-> ro]]

FXPLinear_step_fresh(self, input) ==
    LET ri == Some(Log2Rounded(AbsMax(input), self.rounding) - self.bw_input)
        rw == Some(Log2Rounded(AbsMax(self.weight), self.rounding) - self.bw_wght)
        ro == Some(0 - ri.value - rw.value)
        f == FXPLinearFunction_forward(input, self.weight, ri.value, rw.value,
                                       ro.value, self.max_abs_input,
                                       self.max_abs_wght)
    IN  [self |-> [self EXCEPT !.rshift_input = ri, !.rshift_wght = rw,
                               !.rshift_output = ro],
         input_round |-> f.input_round, wght_round |-> f.wght_round,
         output |-> f.output]

\* FXPLinear.forward: each shift is computed on the first call only, from
\* the largest magnitude seen then, and kept.
FXPLinear_step(self, input) ==
    LET ri == IF self.rshift_input = None
              THEN Some(Log2Rounded(AbsMax(input), self.rounding) - self.bw_input)
              ELSE self.rshift_input
        rw == IF self.rshift_wght = None
              THEN Some(Log2Rounded(AbsMax(self.weight), self.rounding)
                        - self.bw_wght)
              ELSE self.rshift_wght
        ro == IF self.rshift_output = None
              THEN Some(0 - ri.value - rw.value)
              ELSE self.rshift_output
        f == FXPLinearFunction_forward(input, self.weight, ri.value, rw.value,
                                       ro.value, self.max_abs_input,
                                       self.max_abs_wght)
    IN  [self |-> [self EXCEPT !.rshift_input = ri, !.rshift_wght = rw,
                               !.rshift_output = ro],
         input_round |-> f.input_round, wght_round |-> f.wght_round,
         output |-> f.output]

\* the values input and weight elements are drawn from
FxpValues == (0 - MaxMag)..MaxMag

\* input and weight tensors of a layer with one input feature
FxpTensors == {<<v>> : v \in FxpValues}

BitwidthArgs ==
    {<<b>> : b \in 3..(MaxBitwidth + 2)}
    \cup {<<b0, b1>> : b0 \in 1..MaxBitwidth, b1 \in 1..MaxBitwidth}

InitFXP ==
    /\ \E w \in BitwidthArgs, k \in KeepResArgs, m \in MoreResArgs,
          r \in RoundingArgs, wt \in FxpTensors :
         /\ AbsMax(wt) > 0
         /\ env = [kind |-> "FXPLinear", bitwidth |-> w,
                   keep_res |-> k, more_res |-> m]
         /\ linear = FXPLinear_init(w, k, m, r, wt)
    /\ uadd = Idle /\ gadd = Idle /\ fsumul = Idle /\ gmul = Idle /\ relu = Idle
    /\ last = Idle
    /\ hist = <<>>

\* One call of forward. The weight is not all zero, and neither is the input
\* of the first call: the shifts are computed from the log2 of their largest
\* magnitudes.
FXPLinear_forward ==
    /\ env.kind = "FXPLinear"
    /\ linear /= Raised("ValueError")
    /\ Len(hist) < MaxFxpCalls
    /\ \E input \in FxpTensors :
         /\ (linear.rshift_input = None => AbsMax(input) > 0)
         /\ LET r == FXPLinear_step(linear, input)
            IN  /\ linear' = r.self
                /\ last' = [kind |-> "FXPLinear", input |-> input,
                            input_round |-> r.input_round,
                            wght_round |-> r.wght_round,
                            output |-> r.output, pre |-> linear]
                /\ hist' = Append(hist, [output |-> r.output])
    /\ UNCHANGED <<env, uadd, gadd, fsumul, gmul, relu>>

NextFXP == FXPLinear_forward

SpecFXP == InitFXP /\ [][NextFXP]_vars

\* ------------------------------------------------------------ HUBLinear
\* (cycle - 1).bit_length()
BitLength(n) == IF n = 0 THEN 0 ELSE FloorLog2(n) + 1

\* number of indices k in 1..n with seq[k] < v
CountBelow(seq, n, v) == Cardinality({k \in 1..n : seq[k] < v})

HUBLinear_init_full(cycle, irng, rounding, weight) ==
    LET bitwidth == BitLength(cycle - 1)
        wrng == RNGNamed(bitwidth, "Sobol")
        input_map == [c \in 1..cycle |-> CountBelow(irng, cycle, c - 1)]
    IN  IF Len(irng) /= cycle THEN Raised("RuntimeError")
        ELSE [cycle |-> cycle, bitwidth |-> bitwidth, irng |-> irng,
              wrng |-> wrng, input_map |-> input_map,
              rounding |-> rounding, weight |-> weight,
              rshift_input |-> None, rshift_wght |-> None,
              rshift_output |-> None,
              wght_map |-> [c \in 1..cycle |-> [w \in 1..cycle |->
                              CountBelow(wrng, cycle, w - 1)]]]

\* HUBLinear.__init__, the lookup tables: input_map[c] counts the cycles k
\* with irng[k] < c; wght_map[c][w] counts, among the first input_map[c]
\* values of wrng, those below w. Rows and columns are the values
\* 0..cycle-1, held at positions 1..cycle. The comparison of the cycle
\* columns with the 2^bitwidth values of irng fails to broadcast when the
\* two lengths differ. The three shifts start as None.
HUBLinear_init(cycle, irng, rounding, weight) ==
    LET bitwidth == BitLength(cycle - 1)
        wrng == RNGNamed(bitwidth, "Sobol")
        input_map == [c \in 1..cycle |-> CountBelow(irng, cycle, c - 1)]
    IN  IF Len(irng) /= cycle THEN Raised("RuntimeError")
        ELSE [cycle |-> cycle, bitwidth |-> bitwidth, irng |-> irng,
              wrng |-> wrng, input_map |-> input_map,
              rounding |-> rounding, weight |-> weight,
              rshift_input |-> None, rshift_wght |-> None,
              rshift_output |-> None,
              wght_map |-> [c \in 1..cycle |-> [w \in 1..cycle |->
                              CountBelow(wrng, input_map[c], w - 1)]]]

\* A HUBLinear layer, and beside it a unipolar bit-serial multiplier that
\* holds the weight value w over the layer's wrng and is to be fed the
\* stream of the input value c over the layer's irng.
InitHUB ==
    /\ \E cycle \in 2..Pow2(MaxBitwidth) :
         \E irng \in RNG(BitLength(cycle - 1)),
            c \in 0..(cycle - 1), w \in 0..(cycle - 1) :
           /\ env = [kind |-> "HUBLinear", cycle |-> cycle, rng |-> irng,
                     input |-> c, weight |-> w]
           /\ linear = HUBLinear_init(cycle, irng, "round", <<w>>)
           /\ fsumul = IF linear = Raised("RuntimeError") THEN Idle
                       ELSE FSUMul_init(linear.bitwidth, "unipolar", TRUE, w,
                                        linear.wrng)
    /\ uadd = Idle /\ gadd = Idle /\ gmul = Idle /\ relu = Idle
    /\ last = Idle
    /\ hist = <<>>

\* One cycle of the bit-serial multiplier on the next bit of the input stream.
BitSerial_forward ==
    /\ env.kind = "HUBLinear"
    /\ linear /= Raised("RuntimeError")
    /\ Len(hist) < env.cycle
    /\ LET input_0 == BSGen(env.input, linear.irng, Len(hist))
           r == FSUMul_step(fsumul, input_0)
       IN  /\ fsumul' = r.self
           /\ last' = [kind |-> "FSUMul", input |-> input_0, output |-> r.output,
                       error |-> r.error, pre |-> fsumul]
           /\ hist' = Append(hist, [input |-> input_0, output |-> r.output])
    /\ UNCHANGED <<env, uadd, gadd, gmul, relu, linear>>

\* |v >> r| of a float v holding an integer, cast to long: the magnitude of
\* v / 2^r with its fraction dropped
AbsShift(v, r) ==
    LET a == IF v < 0 THEN 0 - v ELSE v
    IN  IF r <= 0 THEN a * Pow2(0 - r) ELSE a \div Pow2(r)

Sign(v) == IF v > 0 THEN 1 ELSE IF v < 0 THEN 0 - 1 ELSE 0

\* HUBLinearFunction.forward for one output lane without bias: the
\* magnitudes of input and weight, shifted and clamped to 0..cycle-1, index
\* wght_map; the looked-up counts carry the signs of input and weight; the
\* output is their sum shifted by rshift_output (kept as the pair of the
\* sum and the shift).
HUBLinearFunction_forward(input, weight, ri, rw, ro, cycle, wght_map) ==
    LET F == 1..Len(input)
        buf_input == [i \in F |-> Clamp(AbsShift(input[i], ri), 0, cycle - 1)]
        buf_wght == [i \in F |-> Clamp(AbsShift(weight[i], rw), 0, cycle - 1)]
        act_wght == [i \in F |-> wght_map[buf_input[i] + 1][buf_wght[i] + 1]
                                   * Sign(weight[i])]
    IN  [buf_input |-> buf_input, buf_wght |-> buf_wght,
         output |-> [acc |-> Sum([i \in F |-> Sign(input[i]) * act_wght[i]]),
                     rshift |-> ro]]

\* HUBLinear.forward: the three shifts are computed anew on every call from
\* the largest magnitudes of the input and of the weight.
HUBLinear_step(self, input) ==
    LET input_max_int == Log2Rounded(AbsMax(input), self.rounding)
        wght_max_int == Log2Rounded(AbsMax(self.weight), self.rounding)
        ri == input_max_int - self.bitwidth
        rw == wght_max_int - self.bitwidth
        ro == self.bitwidth - input_max_int - wght_max_int
        f == HUBLinearFunction_forward(input, self.weight, ri, rw, ro,
                                       self.cycle, self.wght_map)
    IN  [self |-> [self EXCEPT !.rshift_input = Some(ri),
                               !.rshift_wght = Some(rw),
                               !.rshift_output = Some(ro)],
         output |-> f.output]

\* A HUBLinear layer with one input feature and a weight that is not zero.
InitHUBLayer ==
    /\ \E cycle \in 2..Pow2(MaxBitwidth), r \in RoundingArgs,
          wt \in FxpTensors :
         \E irng \in RNG(BitLength(cycle - 1)) :
           /\ AbsMax(wt) > 0
           /\ env = [kind |-> "HUBLinear", cycle |-> cycle, rng |-> irng]
           /\ linear = HUBLinear_init(cycle, irng, r, wt)
    /\ uadd = Idle /\ gadd = Idle /\ fsumul = Idle /\ gmul = Idle /\ relu = Idle
    /\ last = Idle
    /\ hist = <<>>

\* One call of forward, on an input that is not all zero (the shifts come
\* from the log2 of its largest magnitude).
HUBLinear_forward ==
    /\ env.kind = "HUBLinear"
    /\ linear /= Raised("RuntimeError")
    /\ Len(hist) < MaxFxpCalls
    /\ \E input \in FxpTensors :
         /\ AbsMax(input) > 0
         /\ LET r == HUBLinear_step(linear, input)
            IN  /\ linear' = r.self
                /\ last' = [kind |-> "HUBLinear", input |-> input,
                            output |-> r.output, pre |-> linear]
                /\ hist' = Append(hist, [output |-> r.output])
    /\ UNCHANGED <<env, uadd, gadd, fsumul, gmul, relu>>

NextHUB == BitSerial_forward

SpecHUB == InitHUB /\ [][NextHUB]_vars

\* the two layers that scale their operands by shifts
InitShift == InitFXP \/ InitHUBLayer

NextShift == FXPLinear_forward \/ HUBLinear_forward

SpecShift == InitShift /\ [][NextShift]_vars

\* ------------------------------------- external weight and bias tensors
\* an optional tensor argument: None, or a tensor of some shape
Tensor(shape) == [given |-> TRUE, shape |-> shape]

\* the shapes an external weight and an external bias are tried with
WeightShapes == {<<r, c>> : r \in 1..MaxFeatures, c \in 1..MaxFeatures}
BiasShapes == {<<n>> : n \in 1..MaxFeatures}

\* FSULinearPC.__init__, the part that takes weight_ext and bias_ext: both
\* are compared with the declared feature counts before they are stored (the
\* failing assert raises while building its message); a bias without
\* bias_ext has no brng when bbsg is built from it.
FSULinearPC_ext(in_features, out_features, bias, weight_ext, bias_ext) ==
    IF weight_ext.given /\ weight_ext.shape /= <<out_features, in_features>>
    THEN Raised("TypeError")
    ELSE IF bias /\ bias_ext.given /\ bias_ext.shape[1] /= out_features
    THEN Raised("TypeError")
    ELSE IF bias /\ ~bias_ext.given
    THEN Raised("AttributeError")
    ELSE [weight |-> IF weight_ext.given THEN weight_ext.shape
                     ELSE <<out_features, in_features>>,
          bias |-> IF bias THEN bias_ext.shape ELSE <<>>]

\* HUBLinear.__init__ and FXPLinear.__init__, the part that takes weight_ext
\* and bias_ext: each is stored as the layer's weight or bias as it comes.
PlainLinear_ext(in_features, out_features, bias, weight_ext, bias_ext) ==
    [weight |-> IF weight_ext.given THEN weight_ext.shape
                ELSE <<out_features, in_features>>,
     bias |-> IF ~bias THEN <<>>
              ELSE IF bias_ext.given THEN bias_ext.shape
              ELSE <<out_features>>]

\* The caller's arguments; nothing is constructed yet.
InitExt ==
    /\ \E k \in {"FSULinearPC", "HUBLinear", "FXPLinear"},
          n \in 1..MaxFeatures, o \in 1..MaxFeatures, b \in BOOLEAN,
          w \in {None} \cup {Tensor(sh) : sh \in WeightShapes},
          bx \in {None} \cup {Tensor(sh) : sh \in BiasShapes} :
         env = [kind |-> k, in_features |-> n, out_features |-> o,
                bias |-> b, weight_ext |-> w, bias_ext |-> bx]
    /\ linear = Idle
    /\ uadd = Idle /\ gadd = Idle /\ fsumul = Idle /\ gmul = Idle /\ relu = Idle
    /\ last = Idle
    /\ hist = <<>>

FSULinearPC_construct ==
    /\ env.kind = "FSULinearPC" /\ linear = Idle
    /\ linear' = FSULinearPC_ext(env.in_features, env.out_features, env.bias,
                                 env.weight_ext, env.bias_ext)
    /\ UNCHANGED <<env, uadd, gadd, fsumul, gmul, relu, last, hist>>

HUBLinear_construct ==
    /\ env.kind = "HUBLinear" /\ linear = Idle
    /\ linear' = PlainLinear_ext(env.in_features, env.out_features, env.bias,
                                 env.weight_ext, env.bias_ext)
    /\ UNCHANGED <<env, uadd, gadd, fsumul, gmul, relu, last, hist>>

FXPLinear_construct ==
    /\ env.kind = "FXPLinear" /\ linear = Idle
    /\ linear' = PlainLinear_ext(env.in_features, env.out_features, env.bias,
                                 env.weight_ext, env.bias_ext)
    /\ UNCHANGED <<env, uadd, gadd, fsumul, gmul, relu, last, hist>>

NextExt == FSULinearPC_construct \/ HUBLinear_construct \/ FXPLinear_construct

SpecExt == InitExt /\ [][NextExt]_vars

\* ----------------------- the components whose construction or call can fail
InitConfig == InitMul \/ InitGainesAdd \/ InitReLU \/ InitFXP

NextConfig ==
    \/ FSUMul_forward
    \/ GainesMul_forward
    \/ GainesAdd_forward
    \/ UnaryReLU_forward

SpecConfig == InitConfig /\ [][NextConfig]_vars

\* --------------------------------------- the components that keep registers
InitOrder == InitAdd \/ InitMul \/ InitReLU \/ InitUnaryLinear \/ InitPC

NextOrder ==
    \/ UnaryAdd_forward
    \/ FSUMul_forward
    \/ GainesMul_forward
    \/ UnaryReLU_forward
    \/ UnaryLinear_forward
    \/ FSULinearPC_forward

SpecOrder == InitOrder /\ [][NextOrder]_vars

\* ------------------------------------- the counting accumulators together
InitCount == InitAdd \/ InitLinear

NextCount == UnaryAdd_forward \/ UnaryLinear_forward \/ GainesLinear2_forward

SpecCount == InitCount /\ [][NextCount]_vars

\* ======================================================================
\* Properties
\* ======================================================================
\* Sums over the calls i..j of the history
RECURSIVE HistSum(_, _, _)
HistSum(F(_), i, j) == IF i > j THEN 0 ELSE F(hist[j]) + HistSum(F, i, j - 1)

OnesOf(h) == h.ones
OutputOf(h) == h.output
DeltaOf(h) == h.after - h.before

Called == Len(hist) > 0

\* bound of a linear layer: in_features, plus one with a bias
LinearBound == linear.in_features + (IF linear.has_bias THEN 1 ELSE 0)

\* the rate-coded ReLU without shift register runs
PlainRC ==
    /\ env.kind = "UnaryReLU"
    /\ relu \notin {Raised("ValueError"), Raised("AssertionError")}
    /\ relu.encode = "RC" /\ ~relu.sr

\* C1: one scaled counting step (UnaryAdd, UnaryLinear, GainesLinear2): the
\* accumulator gains the number of 1-bits of the cycle, the output is 1 iff
\* the new value is >= bound, and what is stored is the new value minus
\* bound * output.
C1_ScaledStep ==
    /\ (last.kind = "UnaryAdd" /\ uadd.scaled) =>
          LET new == last.pre.accumulator + Fx(Sum(last.input))
          IN  /\ last.output = B2I(new >= Fx(env.lanes))
              /\ uadd.accumulator = new - Fx(env.lanes) * last.output
    /\ (last.kind \in {"UnaryLinear", "GainesLinear2"} /\ linear.scaled) =>
          LET new == last.pre.accumulator + Fx(last.count)
          IN  /\ last.output = B2I(new >= Fx(LinearBound))
              /\ linear.accumulator = new - Fx(LinearBound) * last.output

\* C1 witness: bits [1,0,1,1] on accumulator 2 with bound 4 gave output 1 and
\* left accumulator 1.
C1_Witness ==
    /\ last.kind = "UnaryAdd" /\ uadd.scaled
    /\ last.input = <<1, 0, 1, 1>>
    /\ last.pre.accumulator = Fx(2)
    /\ last.output = 1
    /\ uadd.accumulator = Fx(1)

\* C2: scaled-add conservation: over every window of consecutive calls the
\* accumulator deltas plus bound * outputs add up to the input 1-bits of the
\* window; from accumulator 0, bound * (1 outputs) + accumulator is the
\* total of input 1-bits.
C2_Conservation ==
    (env.kind = "UnaryAdd" /\ uadd.scaled) =>
       /\ \A i \in 1..Len(hist), j \in 1..Len(hist) :
             i <= j =>
               HistSum(DeltaOf, i, j) + Fx(env.lanes) * HistSum(OutputOf, i, j)
                 = Fx(HistSum(OnesOf, i, j))
       /\ Fx(env.lanes) * HistSum(OutputOf, 1, Len(hist)) + uadd.accumulator
             = Fx(HistSum(OnesOf, 1, Len(hist)))

\* C2 witness: a window of three calls that holds a carry and a remainder.
C2_Witness ==
    /\ env.kind = "UnaryAdd" /\ uadd.scaled
    /\ Len(hist) = 3
    /\ HistSum(OutputOf, 1, 3) >= 1
    /\ HistSum(OutputOf, 2, 3) = 1
    /\ uadd.accumulator > 0
    /\ HistSum(OnesOf, 1, 3) > env.lanes

\* C3: after every call of a scaled UnaryAdd or UnaryLinear the accumulator
\* is in [0, bound).
C3_AccumulatorRange ==
    /\ (env.kind = "UnaryAdd" /\ uadd.scaled /\ Called) =>
          (Fx(0) <= uadd.accumulator /\ uadd.accumulator < Fx(env.lanes))
    /\ (env.kind = "UnaryLinear" /\ linear.scaled /\ Called) =>
          (Fx(0) <= linear.accumulator /\ linear.accumulator < Fx(LinearBound))

\* C3 witness: a bipolar UnaryLinear with a bias whose count filled the
\* whole bound in one cycle, on top of a remainder.
C3_Witness ==
    /\ last.kind = "UnaryLinear" /\ linear.scaled
    /\ linear.mode = "bipolar" /\ linear.has_bias
    /\ last.count = LinearBound
    /\ last.pre.accumulator > 0
    /\ linear.accumulator = last.pre.accumulator

\* C4: one non-scaled step of UnaryAdd: the accumulator gains the 1-bits
\* and loses the offset (0 unipolar, (axis size - 1)/2 bipolar); the output
\* is 1 iff the updated accumulator is above the out-accumulator as it was
\* before the call; the out-accumulator then gains the output, so it is the
\* number of 1 outputs so far.
C4_NonScaledStep ==
    (env.kind = "UnaryAdd" /\ ~uadd.scaled) =>
       /\ uadd.out_accumulator = Fx(HistSum(OutputOf, 1, Len(hist)))
       /\ last.kind = "UnaryAdd" =>
             \* Fx((lanes - 1) / 2) = lanes - 1
             LET fx_offset == IF uadd.mode = "bipolar"
                              THEN env.lanes - 1 ELSE 0
             IN  /\ uadd.accumulator =
                       last.pre.accumulator + Fx(Sum(last.input)) - fx_offset
                 /\ last.output =
                       B2I(uadd.accumulator > last.pre.out_accumulator)
                 /\ uadd.out_accumulator =
                       last.pre.out_accumulator + Fx(last.output)

\* C4 witness: a bipolar call whose updated accumulator equals the
\* out-accumulator held before it, so the output is 0, after a 1 output.
C4_Witness ==
    /\ last.kind = "UnaryAdd" /\ ~uadd.scaled /\ uadd.mode = "bipolar"
    /\ last.pre.out_accumulator = Fx(1)
    /\ uadd.accumulator = last.pre.out_accumulator
    /\ last.output = 0

InputOf(h) == h.input

\* C5: GainesMul truth tables: unipolar is AND, bipolar is XNOR (1 iff the
\* bits are equal; (1,0) gives 0), in every call whatever came before it.
C5_GainesTruthTable ==
    env.kind = "GainesMul" =>
       \A k \in 1..Len(hist) :
          LET a == hist[k].input_0
              b == hist[k].input_1
          IN  /\ gmul.mode = "unipolar" =>
                    hist[k].output = (IF a = 1 /\ b = 1 THEN 1 ELSE 0)
              /\ gmul.mode = "bipolar" =>
                    /\ hist[k].output = (IF a = b THEN 1 ELSE 0)
                    /\ (a = 1 /\ b = 0) => hist[k].output = 0

\* C5 witness: a bipolar multiplier gave 1 on (1,1) and later 0 on (1,0).
C5_Witness ==
    /\ env.kind = "GainesMul" /\ gmul.mode = "bipolar"
    /\ Len(hist) >= 2
    /\ hist[1].input_0 = 1 /\ hist[1].input_1 = 1 /\ hist[1].output = 1
    /\ last.input_0 = 1 /\ last.input_1 = 0 /\ last.output = 0

\* an FSUMul instance exists
StaticFSUMul == env.kind = "FSUMul" /\ fsumul /= Raised("ValueError")

\* the generator bit of the multiplier at counter value c
g(c) == B2I(fsumul.rng[(c % Len(fsumul.rng)) + 1] < fsumul.source_gen)

\* C6: static unipolar FSUMul: output = input AND g(counter before the
\* call), the counter advances by the input bit; so the counter is the
\* number of 1 inputs so far and the 1 outputs number the 1s among the first
\* (count of 1 inputs) generator bits.
C6_UnipolarFSUMul ==
    (StaticFSUMul /\ fsumul.mode = "unipolar") =>
       /\ last.kind = "FSUMul" =>
             /\ last.output =
                   (IF last.input = 1 /\ g(last.pre.rng_idx) = 1 THEN 1 ELSE 0)
             /\ fsumul.rng_idx = last.pre.rng_idx + last.input
       /\ fsumul.rng_idx = HistSum(InputOf, 1, Len(hist))
       /\ HistSum(OutputOf, 1, Len(hist))
             = Cardinality({c \in 0..(fsumul.rng_idx - 1) : g(c) = 1})

\* C6 witness: the counter stalled on a 0 input, then a 1 input read a
\* generator bit of 1 at a counter above 0.
C6_Witness ==
    /\ last.kind = "FSUMul" /\ fsumul.mode = "unipolar"
    /\ Len(hist) = 3
    /\ hist[2].input = 0
    /\ last.input = 1 /\ last.pre.rng_idx = 1 /\ last.output = 1
    /\ g(0) = 0

\* C7: static bipolar FSUMul: the second counter advances exactly on 0
\* inputs; output = path_0 OR path_1 with path_0 = input AND g(c1) and
\* path_1 = NOT input AND NOT g(c0), both counters read before they
\* advance; so the output is g(c1) on a 1 input and NOT g(c0) on a 0 input,
\* and the paths are never both 1.
C7_BipolarFSUMul ==
    (last.kind = "FSUMul" /\ fsumul.mode = "bipolar") =>
       LET c1 == last.pre.rng_idx
           c0 == last.pre.rng_idx_inv
       IN  /\ fsumul.rng_idx_inv = c0 + (IF last.input = 0 THEN 1 ELSE 0)
           /\ fsumul.rng_idx = c1 + (IF last.input = 1 THEN 1 ELSE 0)
           /\ last.path_0 = (IF last.input = 1 /\ g(c1) = 1 THEN 1 ELSE 0)
           /\ last.path_1 = (IF last.input = 0 /\ g(c0) = 0 THEN 1 ELSE 0)
           /\ last.output = (IF last.path_0 = 1 \/ last.path_1 = 1 THEN 1 ELSE 0)
           /\ last.input = 1 => last.output = g(c1)
           /\ last.input = 0 => last.output = 1 - g(c0)
           /\ ~(last.path_0 = 1 /\ last.path_1 = 1)

\* C7 witness: a 0 input passed through the 0-path while the two counters
\* stood at different values with different generator bits.
C7_Witness ==
    /\ last.kind = "FSUMul" /\ fsumul.mode = "bipolar"
    /\ last.input = 0 /\ last.output = 1 /\ last.path_1 = 1
    /\ last.pre.rng_idx # last.pre.rng_idx_inv
    /\ g(last.pre.rng_idx) # g(last.pre.rng_idx_inv)

\* C8: rate-coded ReLU without shift register: the accumulator starts at
\* 2^(depth-1); output = input OR (accumulator before the call < midpoint);
\* then accumulator := clamp(accumulator + 2*output - 1, 0, 2^depth - 1).
C8_ReLUStep ==
    PlainRC =>
       LET half == Pow2(relu.depth - 1)
           top == Pow2(relu.depth) - 1
       IN  /\ ~Called => relu.acc = half
           /\ Called =>
                LET moved == last.pre.acc + 2 * last.output - 1
                IN  /\ last.output =
                          (IF last.input = 1 \/ last.pre.acc < half THEN 1 ELSE 0)
                    /\ last.output = 0 <=>
                          (last.input = 0 /\ last.pre.acc >= half)
                    /\ relu.acc = (IF moved < 0 THEN 0
                                    ELSE IF moved > top THEN top ELSE moved)

\* C8 witness: a 0 input below the midpoint was forced to 1.
C8_Witness ==
    /\ PlainRC /\ last.kind = "UnaryReLU"
    /\ last.input = 0 /\ last.pre.acc < relu.buf_half /\ last.output = 1
    /\ relu.depth >= 2

\* C9: after every call the accumulator of the rate-coded ReLU is in
\* [0, 2^depth - 1].
C9_ReLURange ==
    (PlainRC /\ Called) =>
       (0 <= relu.acc /\ relu.acc <= Pow2(relu.depth) - 1)

\* C9 witness: a 1 output arrived with the accumulator already at the top,
\* and it stayed there.
C9_Witness ==
    /\ PlainRC /\ last.kind = "UnaryReLU"
    /\ last.pre.acc = Pow2(relu.depth) - 1
    /\ last.output = 1
    /\ relu.acc = Pow2(relu.depth) - 1
    /\ relu.depth >= 2

\* C10: over every run of consecutive calls whose inputs are all 1, every
\* output is 1, the accumulator never decreases and after each of those
\* calls it is at or above the midpoint 2^(depth-1).
C10_PositiveRun ==
    PlainRC =>
       \A i \in 1..Len(hist), j \in 1..Len(hist) :
          (i <= j /\ \A k \in i..j : hist[k].input = 1) =>
             \A k \in i..j :
                /\ hist[k].output = 1
                /\ hist[k].after >= hist[k].before
                /\ hist[k].after >= Pow2(relu.depth - 1)

\* C10 witness: a run of three 1 inputs that began below the midpoint and
\* ended saturated at the top.
C10_Witness ==
    /\ PlainRC
    /\ Len(hist) >= 4
    /\ \E i \in 1..(Len(hist) - 2) :
          /\ hist[i].before < relu.buf_half
          /\ \A k \in i..(i + 2) : hist[k].input = 1
          /\ hist[i + 2].before = relu.buf_max
          /\ hist[i + 2].after = relu.buf_max

\* the rate-coded ReLU with shift register runs
SmoothedRC ==
    /\ env.kind = "UnaryReLU"
    /\ relu \notin {Raised("ValueError"), Raised("AssertionError")}
    /\ relu.encode = "RC" /\ relu.sr

\* the temporal-coded ReLU runs
TemporalReLU ==
    /\ env.kind = "UnaryReLU"
    /\ relu \notin {Raised("ValueError"), Raised("AssertionError")}
    /\ relu.encode = "TC"

C14_PolicyByConfig ==
    (env.kind = "FSULinearPC" /\ Called) =>
       \A i \in 1..linear.in_features :
          linear.wrdx_i1[1][i] =
             last.pre.wrdx_i1[1][i]
             + (IF Lower(linear.hwcfg_rng) \in {"race", "tc"} THEN 1
                ELSE last.input[1][i])

\* the bit lane i of the weight stream shows at counter value idx
WeightBit(i, idx) == BSGen(linear.buf_wght[i], linear.rng, idx)

\* C15: UnaryLinear counters: each cycle the weight counter of lane i
\* advances by input bit i and the bias counter by 1; in bipolar mode the
\* inverse weight counter of lane i advances by 1 - input bit i, and the
\* count of the cycle is the pass input x weight-bit (with the bias bit)
\* plus the pass (1 - input) x (1 - inverse-weight-bit), each bit read at
\* the pre-advance value of its counter.  No counter ever decreases.
C15_LinearCounters ==
    last.kind = "UnaryLinear" =>
       LET F == 1..linear.in_features
           pre == last.pre
           pass_1 == Sum([i \in F |->
                        last.input[i] * WeightBit(i, pre.rng_wght_idx[i])])
           pass_0 == Sum([i \in F |->
                        (1 - last.input[i])
                        * (1 - WeightBit(i, pre.rng_wght_idx_inv[i]))])
           bias_bit == IF linear.has_bias
                       THEN BSGen(linear.buf_bias, linear.rng, pre.rng_bias_idx)
                       ELSE 0
       IN  /\ \A i \in F :
                /\ linear.rng_wght_idx[i] = pre.rng_wght_idx[i] + last.input[i]
                /\ linear.rng_wght_idx[i] >= pre.rng_wght_idx[i]
           /\ linear.has_bias => linear.rng_bias_idx = pre.rng_bias_idx + 1
           /\ linear.rng_bias_idx >= pre.rng_bias_idx
           /\ linear.mode = "unipolar" => last.count = pass_1 + bias_bit
           /\ linear.mode = "bipolar" =>
                /\ \A i \in F :
                     /\ linear.rng_wght_idx_inv[i] =
                           pre.rng_wght_idx_inv[i] + (1 - last.input[i])
                     /\ linear.rng_wght_idx_inv[i] >= pre.rng_wght_idx_inv[i]
                /\ last.count = pass_1 + bias_bit + pass_0

\* C15 witness: a bipolar layer with bias after two cycles in which one lane
\* saw a 1 and then a 0, so that its two counters differ from each other's
\* history, and the inverse pass counted.
C15_Witness ==
    /\ last.kind = "UnaryLinear" /\ linear.mode = "bipolar" /\ linear.has_bias
    /\ Len(hist) = 2
    /\ linear.rng_bias_idx = 2
    /\ \E i \in 1..linear.in_features :
          /\ last.input[i] = 0
          /\ linear.rng_wght_idx[i] = 1 /\ linear.rng_wght_idx_inv[i] = 1
          /\ WeightBit(i, last.pre.rng_wght_idx_inv[i]) = 0
    /\ last.count >= 1

\* a GainesAdd instance exists and runs the MUX
ScaledGaines ==
    env.kind = "GainesAdd" /\ gadd /= Raised("ValueError") /\ gadd.scaled

\* the calls so far that completed
Completed == {k \in 1..Len(hist) : hist[k].error = "none"}

\* C16: Gaines MUX add: a call outputs the input lane rng[rng_idx] of the
\* axis the instance reduces along and then sets rng_idx to
\* (rng_idx + 1) mod period; rng_idx starts at 0, stays in [0, period) and
\* is back at 0 after exactly period completed calls.
C16_GainesMux ==
    ScaledGaines =>
       LET period == Len(gadd.rng)
       IN  /\ gadd.rng_idx \in 0..(period - 1)
           /\ ~Called => gadd.rng_idx = 0
           /\ gadd.rng_idx = Cardinality(Completed) % period
           /\ (gadd.rng_idx = 0) <=> (Cardinality(Completed) % period = 0)
           /\ (Called /\ last.error = "none") =>
                /\ gadd.rng[last.pre.rng_idx + 1]
                      < Size(last.input, gadd.acc_dim)
                /\ last.output =
                     IndexSelect(last.input, gadd.acc_dim,
                                 gadd.rng[last.pre.rng_idx + 1])
                /\ gadd.rng_idx = (last.pre.rng_idx + 1) % period

\* C16 witness: the counter is back at 0 after exactly period completed
\* calls, the last of which picked a lane other than the first.
C16_Witness ==
    /\ ScaledGaines
    /\ Called /\ last.error = "none"
    /\ Cardinality(Completed) = Len(gadd.rng)
    /\ gadd.rng_idx = 0
    /\ last.pre.rng_idx = Len(gadd.rng) - 1
    /\ gadd.rng[last.pre.rng_idx + 1] > 0
    /\ \E i \in 1..env.rows : last.input[i] /= last.output

\* C17: GainesAdd reduces along the axis given at construction: with
\* acc_dim = 1 the MUX lane and the OR are taken along axis 1, and the
\* output has the input's shape with axis 1 removed.
C17_ChosenAxis ==
    (env.kind = "GainesAdd" /\ gadd /= Raised("ValueError")
       /\ env.acc_dim = 1 /\ Called /\ last.error = "none") =>
       /\ Len(last.output) = env.rows
       /\ gadd.scaled =>
            last.output = IndexSelect(last.input, env.acc_dim,
                                      gadd.rng[last.pre.rng_idx + 1])
       /\ ~gadd.scaled =>
            last.output = [i \in 1..env.rows |-> B2I(Sum(last.input[i]) > 0)]

\* C18: Gaines MUX precondition: a call whose rng[rng_idx] is not below the
\* size of the axis reduced along fails with the assertion, gives no output
\* and leaves rng_idx (every register) as it was; the calls before it whose
\* index was in range completed.
C18_MuxPrecondition ==
    (ScaledGaines /\ Called) =>
       LET size == Size(last.input, gadd.acc_dim)
       IN  /\ (last.pre.rng[last.pre.rng_idx + 1] >= size) =>
                /\ last.error = "AssertionError"
                /\ last.output = <<>>
                /\ gadd = last.pre
           /\ \A k \in 1..Len(hist) :
                (gadd.rng[hist[k].idx + 1] < size) <=> (hist[k].error = "none")

\* C18 witness: a call was refused after an earlier call had completed.
C18_Witness ==
    /\ ScaledGaines
    /\ Len(hist) >= 2
    /\ hist[1].error = "none"
    /\ last.error = "AssertionError"
    /\ gadd.rng_idx = last.pre.rng_idx /\ gadd.rng_idx > 0

\* C19: no partial failure: a forward call that fails has written no counter
\* and no accumulator; in particular an FSUMul call that raises 'mode is not
\* implemented' leaves rng_idx at its value before the call.
C19_NoPartialFailure ==
    /\ (last.kind = "FSUMul" /\ last.error /= "none") =>
          /\ fsumul.rng_idx = last.pre.rng_idx
          /\ fsumul = last.pre
    /\ (last.kind = "GainesAdd" /\ last.error /= "none") => gadd = last.pre
    /\ (last.kind = "GainesMul" /\ last.error /= "none") => gmul = [mode |-> env.mode]

\* the constructor arguments the components do not support
Unsupported ==
    \/ env.kind \in {"FSUMul", "GainesMul"} /\ env.mode \notin Modes
    \/ env.kind = "FSUMul" /\ ~env.static
    \/ env.kind = "GainesAdd" /\ env.mode = "bipolar" /\ ~env.scaled
    \/ env.kind = "UnaryReLU" /\ env.encode \notin {"RC", "TC"}
    \/ env.kind = "UnaryReLU" /\ env.shiftreg /\ env.depth > DepthLimit
    \/ env.kind = "FXPLinear" /\ ~IsTuple(env.bitwidth)
          /\ env.keep_res \notin {"input", "output"}
    \/ env.kind = "FXPLinear" /\ env.keep_res = "output"
          /\ ~IsTuple(env.bitwidth) /\ env.bitwidth[1] % 2 = 1
          /\ env.more_res \notin {"input", "weight"}

\* the instance the caller asked for, or what its constructor raised
Instance ==
    CASE env.kind = "FSUMul" -> fsumul
      [] env.kind = "GainesMul" -> gmul
      [] env.kind = "GainesAdd" -> gadd
      [] env.kind = "UnaryReLU" -> relu
      [] env.kind = "FXPLinear" -> linear

\* C20: configuration errors are eager: the constructor refuses every
\* unsupported mode, encode or option, and no forward call of an instance
\* that was constructed raises a configuration error.
C20_EagerConfigErrors ==
    /\ Unsupported =>
          Instance \in {Raised("ValueError"), Raised("AssertionError")}
    /\ (last.kind \in {"FSUMul", "GainesMul"}) => last.error /= "ValueError"

\* ---- what an output is computed from
\* UnaryAdd: the comparison, applied to an accumulator value acc
AddOutputFrom(acc) ==
    IF uadd.scaled THEN B2I(acc >= Fx(env.lanes))
    ELSE B2I(acc > last.pre.out_accumulator)

\* UnaryAdd: the accumulator value after it has gained the bits of the call
AddGained ==
    last.pre.accumulator + Fx(Sum(last.input))
    - (IF uadd.scaled \/ uadd.mode = "unipolar" THEN 0 ELSE env.lanes - 1)

\* UnaryLinear: the comparison, applied to an accumulator value acc
LinearOutputFrom(acc) ==
    IF linear.scaled THEN B2I(acc >= linear.acc_bound)
    ELSE B2I(acc > last.pre.out_accumulator)

\* UnaryLinear: the accumulator value after it has gained the count
LinearGained ==
    last.pre.accumulator + Fx(last.count)
    - (IF linear.scaled THEN 0 ELSE linear.offset)

\* temporal-coded ReLU: the output rule, applied to a cycle count and a sum
TemporalOutputFrom(cycle, acc) ==
    IF cycle > relu.threshold
    THEN (IF acc > relu.threshold THEN last.input ELSE 0)
    ELSE B2I(cycle >= acc)

\* Every stream bit of the call was read at the value its counter had before
\* the call, and the rate-coded ReLU forms read the accumulator and the
\* population count as the call before left them.
ReadBeforeAdvance ==
    /\ (last.kind = "FSUMul" /\ last.error = "none") =>
          /\ last.path_0 = BitAnd(last.input, g(last.pre.rng_idx))
          /\ fsumul.mode = "bipolar" =>
                last.path_1 = BitAnd(1 - last.input, 1 - g(last.pre.rng_idx_inv))
          /\ last.output = BitOr(last.path_0, last.path_1)
    /\ last.kind = "UnaryLinear" =>
          LET F == 1..linear.in_features
          IN  last.count =
                Sum([i \in F |-> last.input[i]
                                  * WeightBit(i, last.pre.rng_wght_idx[i])])
                + (IF linear.has_bias
                   THEN BSGen(linear.buf_bias, linear.rng, last.pre.rng_bias_idx)
                   ELSE 0)
                + (IF linear.mode = "bipolar"
                   THEN Sum([i \in F |-> (1 - last.input[i])
                               * (1 - WeightBit(i, last.pre.rng_wght_idx_inv[i]))])
                   ELSE 0)
    /\ last.kind = "FSULinearPC" =>
          LET F == 1..linear.in_features
              wbit == [i \in F |-> BSGen(linear.weight[i], linear.wrng,
                                          last.pre.wrdx_i1[1][i])]
          IN  last.output[1] =
                Sum([i \in F |-> last.input[1][i] * wbit[i]])
                + (IF linear.has_bias
                   THEN BSGen(linear.bias, linear.brng, last.pre.brdx) ELSE 0)
                + (IF linear.mode = "bipolar"
                   THEN Sum([i \in F |-> (1 - last.input[1][i]) * (1 - wbit[i])])
                   ELSE 0)
    /\ (PlainRC /\ Called) =>
          last.output = BitOr(last.input, B2I(last.pre.acc < relu.buf_half))
    /\ (SmoothedRC /\ Len(hist) > 1) =>
          last.output = BitOr(last.input, B2I(2 * last.pre.sr_cnt < relu.depth))

\* C13 as stated: in every component every counter advance and accumulator
\* update of a cycle comes after the output of the cycle has been computed:
\* stream bits are read at the counters as the cycle before left them, and
\* the output comparison reads the accumulator (and the cycle count) as the
\* cycle before left them.
C13_UpdateAfterOutput ==
    /\ ReadBeforeAdvance
    /\ last.kind = "UnaryAdd" =>
          last.output = AddOutputFrom(last.pre.accumulator)
    /\ last.kind = "UnaryLinear" =>
          last.output = LinearOutputFrom(last.pre.accumulator)
    /\ (TemporalReLU /\ Called) =>
          last.output = TemporalOutputFrom(last.pre.cycle, last.pre.acc)

\* C13: step ordering as the code has it: stream bits are read before their
\* counters advance, the rate-coded ReLU reads its accumulator and its
\* population count before updating them; the counting accumulators of
\* UnaryAdd and UnaryLinear, and the cycle count and input sum of the
\* temporal-coded ReLU, gain the cycle's input first and the output is
\* computed from the updated value.  In every case the output is a function
\* of the registers the cycle before left and of the cycle's inputs.
C13_StepOrdering ==
    /\ ReadBeforeAdvance
    /\ last.kind = "UnaryAdd" =>
          last.output = AddOutputFrom(AddGained)
    /\ last.kind = "UnaryLinear" =>
          last.output = LinearOutputFrom(LinearGained)
    /\ (TemporalReLU /\ Called) =>
          last.output = TemporalOutputFrom(last.pre.cycle + 1,
                                           last.pre.acc + last.input)

\* C13 witness: a scaled UnaryAdd below its bound before the call gave 1,
\* which only the updated accumulator explains.
C13_Witness ==
    /\ last.kind = "UnaryAdd" /\ uadd.scaled
    /\ last.pre.accumulator < Fx(env.lanes)
    /\ last.output = 1
    /\ AddOutputFrom(last.pre.accumulator) = 0

C22_GainesOr ==
    env.kind = "GainesAdd" =>
       /\ (gadd = Raised("ValueError")) <=>
             (env.mode = "bipolar" /\ ~env.scaled)
       /\ (gadd /= Raised("ValueError") /\ ~gadd.scaled /\ Called) =>
            LET lanes == 0..(Size(last.input, gadd.acc_dim) - 1)
                lane(k) == IndexSelect(last.input, gadd.acc_dim, k)
            IN  /\ gadd.mode = "unipolar"
                /\ last.error = "none"
                /\ DOMAIN last.output = DOMAIN lane(0)
                /\ \A j \in DOMAIN last.output :
                      last.output[j] =
                        (IF \E k \in lanes : lane(k)[j] = 1 THEN 1 ELSE 0)
                /\ gadd = last.pre

\* C22 witness: an OR over at least two lanes gave 1 where one lane held 1
\* and another 0, and gave 0 elsewhere.
C22_Witness ==
    /\ env.kind = "GainesAdd" /\ gadd /= Raised("ValueError")
    /\ ~gadd.scaled /\ Called
    /\ env.rows >= 2 /\ env.cols >= 2
    /\ last.input[1][1] = 1 /\ last.input[2][1] = 0 /\ last.output[1] = 1
    /\ last.output[2] = 0

ShapeMismatch ==
    \/ env.weight_ext.given
          /\ env.weight_ext.shape /= <<env.out_features, env.in_features>>
    \/ env.bias /\ env.bias_ext.given
          /\ env.bias_ext.shape /= <<env.out_features>>

\* C24: FSULinearPC, HUBLinear and FXPLinear refuse at construction a
\* weight_ext whose shape is not (out_features, in_features) and, with a
\* bias, a bias_ext whose length is not out_features: no layer is created.
C24_ShapeRejected ==
    (linear /= Idle /\ ShapeMismatch) =>
       linear \in {Raised("TypeError"), Raised("AttributeError"),
                   Raised("AssertionError"), Raised("ValueError")}

\* an FXPLinear layer that was constructed
BuiltFXP == env.kind = "FXPLinear" /\ linear /= Raised("ValueError")

\* the integer given as bitwidth (when it is not a tuple)
ScalarBitwidth == env.bitwidth[1]

\* C25: with an integer bitwidth FXPLinear refuses at construction a keep_res
\* outside {input, output} and, under keep_res 'output' with an odd bitwidth,
\* a more_res outside {input, weight}; with keep_res 'input', with an even
\* bitwidth or with a tuple bitwidth more_res plays no part: every value is
\* accepted and the widths are the same for all of them.
C25_OptionValidation ==
    env.kind = "FXPLinear" =>
      /\ (~IsTuple(env.bitwidth) /\ env.keep_res \notin {"input", "output"})
            => linear = Raised("ValueError")
      /\ (~IsTuple(env.bitwidth) /\ env.keep_res = "output"
            /\ ScalarBitwidth % 2 = 1 /\ env.more_res \notin {"input", "weight"})
            => linear = Raised("ValueError")
      /\ IsTuple(env.bitwidth)
            => /\ linear /= Raised("ValueError")
               /\ linear.bw_input = env.bitwidth[1] - 1
               /\ linear.bw_wght = env.bitwidth[2] - 1
      /\ (~IsTuple(env.bitwidth) /\ env.keep_res = "input")
            => /\ linear /= Raised("ValueError")
               /\ linear.bw_input = ScalarBitwidth - 1
               /\ linear.bw_wght = ScalarBitwidth - 1
      /\ (~IsTuple(env.bitwidth) /\ env.keep_res = "output"
            /\ ScalarBitwidth % 2 = 0)
            => /\ linear /= Raised("ValueError")
               /\ linear.bw_input = ScalarBitwidth \div 2 - 1
               /\ linear.bw_wght = ScalarBitwidth \div 2 - 1

\* a layer built with a more_res that is neither value has run forward
C25_Witness ==
    /\ BuiltFXP /\ env.more_res = "other"
    /\ ~IsTuple(env.bitwidth) /\ env.keep_res = "output"
    /\ last.kind = "FXPLinear"

C27_TableIsBitSerial ==
    (env.kind = "HUBLinear" /\ linear /= Raised("RuntimeError")
       /\ Len(hist) = env.cycle) =>
      /\ linear.wght_map[env.input + 1][env.weight + 1]
            = HistSum(OutputOf, 1, Len(hist))
      /\ linear.input_map[env.input + 1] = HistSum(InputOf, 1, Len(hist))

\* a full period with some 1 outputs, fewer than the 1 inputs, over an input
\* sequence that is not the weight sequence
C27_Witness ==
    /\ env.kind = "HUBLinear" /\ linear /= Raised("RuntimeError")
    /\ Len(hist) = env.cycle
    /\ linear.irng /= linear.wrng
    /\ HistSum(OutputOf, 1, Len(hist)) > 0
    /\ HistSum(OutputOf, 1, Len(hist)) < HistSum(InputOf, 1, Len(hist))
    /\ HistSum(InputOf, 1, Len(hist)) < env.cycle

\* the hwcfg rng of the FSULinearPC layer names a rate-coded source
RateCodedWeights == Lower(linear.hwcfg_rng) \notin {"race", "tc"}

\* C28: the weight counters of FSULinearPC start with batch dimension 1; the
\* first forward call with batch size B > 1 makes B copies of them, later
\* calls with the same B keep the batch dimension at B, and the counters of
\* each batch lane advance by the inputs of that lane (for a temporal
\* source, by 1).
C28_BatchElasticity ==
    (env.kind = "FSULinearPC" /\ env.batch > 1) =>
      /\ ~Called => Len(linear.wrdx_i1) = 1
      /\ Called =>
            /\ Len(linear.wrdx_i1) = env.batch
            /\ \A b \in 1..env.batch : \A i \in 1..linear.in_features :
                  linear.wrdx_i1[b][i] =
                     Lane(last.pre.wrdx_i1, b)[i]
                     + (IF RateCodedWeights THEN last.input[b][i] ELSE 1)

\* the calls so far all had the input bit 1
ConstantOne == \A k \in 1..Len(hist) : hist[k].input = 1

\* C29: a unipolar level m of [0, P] compared with an index sequence that
\* visits each value of [0, P) once, the counter advancing on every one of
\* exactly P cycles (a unipolar static FSUMul fed the constant 1), gives
\* exactly m one-bits.
C29_GeneratorConvergence ==
    (StaticFSUMul /\ fsumul.mode = "unipolar" /\ ConstantOne
       /\ Len(hist) = Len(fsumul.rng)) =>
      /\ fsumul.rng_idx = Len(fsumul.rng)
      /\ HistSum(OutputOf, 1, Len(hist)) = fsumul.source_gen

\* a full period of the longest index sequence, in radical-inverse order,
\* at a level that is neither 0 nor P
C29_Witness ==
    /\ StaticFSUMul /\ fsumul.mode = "unipolar" /\ ConstantOne
    /\ Len(hist) = Len(fsumul.rng)
    /\ Len(fsumul.rng) = Pow2(MaxBitwidth)
    /\ fsumul.rng[2] > fsumul.rng[3]
    /\ fsumul.source_gen > 1 /\ fsumul.source_gen < Len(fsumul.rng)
    /\ HistSum(OutputOf, 1, Len(hist)) = fsumul.source_gen

\* C30: in a bipolar static FSUMul, and in every weight lane of a bipolar
\* UnaryLinear, each cycle advances exactly one of the counter and the
\* inverse counter, by 1, so that after T cycles the two add up to T; the
\* bias counter of UnaryLinear is T.
C30_DualCounters ==
    /\ (StaticFSUMul /\ fsumul.mode = "bipolar") =>
          /\ fsumul.rng_idx + fsumul.rng_idx_inv = Len(hist)
          /\ Called =>
                {fsumul.rng_idx - last.pre.rng_idx,
                 fsumul.rng_idx_inv - last.pre.rng_idx_inv} = {0, 1}
    /\ (env.kind = "UnaryLinear" /\ linear.mode = "bipolar") =>
          \A i \in 1..linear.in_features :
             /\ linear.rng_wght_idx[i] + linear.rng_wght_idx_inv[i] = Len(hist)
             /\ Called =>
                   {linear.rng_wght_idx[i] - last.pre.rng_wght_idx[i],
                    linear.rng_wght_idx_inv[i] - last.pre.rng_wght_idx_inv[i]}
                      = {0, 1}
    /\ (env.kind = "UnaryLinear" /\ linear.has_bias) =>
          linear.rng_bias_idx = Len(hist)

\* a bipolar layer with bias at the end of its run, two of its lanes having
\* split the cycles differently between their two counters
C30_Witness ==
    /\ env.kind = "UnaryLinear" /\ linear.mode = "bipolar" /\ linear.has_bias
    /\ Len(hist) = MaxLinCycles
    /\ linear.rng_bias_idx = MaxLinCycles
    /\ \E i, j \in 1..linear.in_features :
          /\ linear.rng_wght_idx[i] = MaxLinCycles
          /\ linear.rng_wght_idx_inv[j] > 0 /\ linear.rng_wght_idx[j] > 0

\* C31: the accumulator of a rate-coded UnaryReLU without shift register
\* stays between 2^(depth-1) - 1 and 2^depth - 1; a 0 output that leaves it
\* one below the midpoint is followed by an output of 1 whatever the input,
\* and from depth 2 on the accumulator is never 0.
C31_AccumulatorFloor ==
    PlainRC =>
      /\ relu.acc >= Pow2(relu.depth - 1) - 1
      /\ relu.acc <= Pow2(relu.depth) - 1
      /\ relu.depth >= 2 => relu.acc > 0
      /\ \A k \in 1..(Len(hist) - 1) :
            (hist[k].output = 0 /\ hist[k].after = Pow2(relu.depth - 1) - 1)
               => /\ hist[k + 1].output = 1
                  /\ hist[k + 1].after = Pow2(relu.depth - 1)

\* at depth 2 or more a 0 input met the accumulator one below the midpoint,
\* left there by a 0 output, and the output was 1
C31_Witness ==
    /\ PlainRC /\ relu.depth >= 2 /\ Len(hist) >= 2
    /\ hist[Len(hist) - 1].output = 0
    /\ last.pre.acc = relu.buf_half - 1
    /\ last.input = 0 /\ last.output = 1
    /\ relu.acc = relu.buf_half

\* C32: in a temporal-coded UnaryReLU the accumulator never exceeds the
\* cycle count, and each of the first 2^(bitwidth-1) calls gives 1 whatever
\* the input bits are.
C32_FirstHalfOnes ==
    TemporalReLU =>
      /\ relu.acc <= relu.cycle
      /\ relu.cycle = Len(hist)
      /\ \A k \in 1..Len(hist) :
            k <= Pow2(relu.bitwidth - 1) => hist[k].output = 1

\* a first half of two calls, passed with a 0 and a 1 input, and a second
\* half begun
C32_Witness ==
    /\ TemporalReLU /\ relu.bitwidth = 2 /\ Len(hist) > 2
    /\ hist[1].input = 0 /\ hist[1].output = 1
    /\ hist[2].input = 1 /\ hist[2].output = 1
    /\ hist[3].output = 0

\* a non-scaled unipolar UnaryAdd
NonScaledUnipolar ==
    env.kind = "UnaryAdd" /\ ~uadd.scaled /\ uadd.mode = "unipolar"

\* C33: in a non-scaled unipolar UnaryAdd the out-accumulator never exceeds
\* the accumulator, which holds the 1 input bits received so far; it grows
\* by at most 1 per cycle; and a cycle gives 1 whenever the accumulator is
\* above the out-accumulator when its output is decided.
C33_NeverOverEmits ==
    NonScaledUnipolar =>
      /\ uadd.out_accumulator <= uadd.accumulator
      /\ uadd.accumulator = Fx(HistSum(OnesOf, 1, Len(hist)))
      /\ HistSum(OutputOf, 1, Len(hist)) <= HistSum(OnesOf, 1, Len(hist))
      /\ Called =>
            /\ uadd.out_accumulator - last.pre.out_accumulator
                  \in {Fx(0), Fx(1)}
            /\ uadd.accumulator > last.pre.out_accumulator => last.output = 1
            /\ last.pre.accumulator > last.pre.out_accumulator
                  => last.output = 1

\* the inputs have run ahead of the outputs: a cycle without any input 1
\* still gives 1, and the accumulator stays above the out-accumulator
C33_Witness ==
    /\ NonScaledUnipolar /\ Len(hist) > 1
    /\ Sum(last.input) = 0 /\ last.output = 1
    /\ uadd.out_accumulator < uadd.accumulator

\* a bipolar FSULinearPC layer under the temporal-coded weight policy, called
TemporalBipolarPC ==
    /\ env.kind = "FSULinearPC" /\ Called
    /\ linear.wtc /\ linear.mode = "bipolar"

\* the weight bit of feature i that batch lane b read in the last call
WeightBitRead(b, i) ==
    BSGen(linear.weight[i], linear.wrng, Lane(last.pre.wrdx_i1, b)[i])

\* the bias bit read in the last call (0 without bias)
BiasBitRead ==
    IF linear.has_bias THEN BSGen(linear.bias, linear.brng, last.pre.brdx)
    ELSE 0

\* C34: under the temporal-coded weight policy a bipolar FSULinearPC keeps
\* no inverse counter; the count of a cycle is the number of features whose
\* input bit equals the weight bit, plus the bias bit if there is a bias,
\* and lies between 0 and in_features (+ 1 with a bias).
C34_MatchCount ==
    TemporalBipolarPC =>
      /\ "wrdx_i0" \notin DOMAIN linear
      /\ \A b \in 1..Len(last.output) :
            /\ last.output[b] =
                  Cardinality({i \in 1..linear.in_features :
                                 last.input[b][i] = WeightBitRead(b, i)})
                  + BiasBitRead
            /\ last.output[b] >= 0
            /\ last.output[b] <= LinearBound

\* a cycle with one feature that matches its weight bit through two 0 bits,
\* one that does not, and a bias bit of 1
C34_Witness ==
    /\ TemporalBipolarPC /\ linear.has_bias /\ BiasBitRead = 1
    /\ \E i, j \in 1..linear.in_features :
          /\ last.input[1][i] = 0 /\ WeightBitRead(1, i) = 0
          /\ last.input[1][j] /= WeightBitRead(1, j)
    /\ last.output[1] = 2

\* C35: FSULinearPC constructs with bias = True and bias_ext = None, its
\* defaults, and has a bias generator and counter as it has when an
\* external bias is given.
C35_DefaultBias ==
    (env.kind = "FSULinearPC" /\ linear /= Idle
       /\ env.bias /\ ~env.bias_ext.given
       /\ (env.weight_ext.given
             => env.weight_ext.shape = <<env.out_features, env.in_features>>)) =>
      /\ linear \notin {Raised("TypeError"), Raised("AttributeError"),
                        Raised("AssertionError"), Raised("ValueError")}
      /\ linear.bias = <<env.out_features>>

\* a HUBLinear layer that was constructed
BuiltHUB == env.kind = "HUBLinear" /\ linear /= Raised("RuntimeError")

\* the three shifts of the layer held in linear, once they are set
ShiftSum(self) ==
    self.rshift_input.value + self.rshift_wght.value + self.rshift_output.value

\* the shift of the input that the last call's input would give by itself
FreshInputShift(width) ==
    Log2Rounded(AbsMax(last.input), linear.rounding) - width

SaturatingBipolar ==
    /\ env.kind \in GainesClasses
    /\ ~linear.scaled /\ linear.mode = "bipolar"

\* the counter a call would reach without saturation
C37_Unclamped ==
    last.pre.cnt + 2 * last.count
    - (linear.in_features + B2I(linear.has_bias))

\* C37: non-scaled bipolar GainesLinear1/3/4: the counter starts at
\* 2^(depth-1); each cycle it becomes
\* clamp(cnt + 2*parallel_count - (in_features + bias), 0, 2^depth - 1) and
\* the output is 1 iff the updated counter is strictly greater than
\* 2^(depth-1); the counter stays in [0, 2^depth - 1].
C37_SaturatingCounter ==
    SaturatingBipolar =>
       /\ 0 <= linear.cnt /\ linear.cnt <= Pow2(env.depth) - 1
       /\ ~Called => linear.cnt = Pow2(env.depth - 1)
       /\ Called =>
             /\ linear.cnt = Clamp(C37_Unclamped, 0, Pow2(env.depth) - 1)
             /\ last.output = B2I(linear.cnt > Pow2(env.depth - 1))

\* a call whose sum passes the top of the range, so that the counter
\* saturates at 2^depth - 1 and the output is 1
C37_Witness ==
    /\ SaturatingBipolar /\ Called
    /\ C37_Unclamped > Pow2(env.depth) - 1
    /\ linear.cnt = Pow2(env.depth) - 1
    /\ last.output = 1

====
